---- MODULE Spec2Model ----
(***************************************************************************)
(* The JSON-RPC gateway of the documentation server (POST / of             *)
(* mcp-server/http_server.py) together with the resource readers of        *)
(* mcp-server/mcp_protocol_server.py that it delegates to, the tools and   *)
(* resources of the STDIO servers, and the monitor of                      *)
(* mcp-server/scripts/mcp-auto-update.py.                                  *)
(*                                                                         *)
(* JSON values are tagged records ([k |-> "object", ...], [k |-> "array"]  *)
(* ...), Python dicts under construction are functions from keys to        *)
(* values, a Python exception is a record [cls, msg], and a string that    *)
(* the code takes apart (a resource URI) is a sequence of tokens.          *)
(***************************************************************************)
EXTENDS Integers, Sequences, FiniteSets, TLC

VARIABLES session, tree, exchange, updater

vars == <<session, tree, exchange, updater>>

(***************************************************************************)
(* Bounds of the model.                                                    *)
(***************************************************************************)
\* longest list of path segments that follows the type tag of a URI
MaxSegs == 4
\* longest batch (JSON array) posted to the endpoint
MaxBatch == 2

(***************************************************************************)
(* Python / JSON atoms.                                                    *)
(***************************************************************************)
\* a key that the JSON object does not hold
Absent == "<absent>"
\* Python's None, JSON's null
None == "<None>"
\* a JSON array where a string is expected (unhashable in Python)
ArrayValue == "<array>"

\* dict.get(key): None when the key is absent
Get(v) == IF v = Absent THEN None ELSE v

\* dict.get(key, default)
GetDefault(v, default) == IF v = Absent THEN default ELSE v

\* d[k] = v on a dict
Put(d, k, v) == (k :> v) @@ d

NoExc == [cls |-> "none", msg |-> ""]

Raise(cls, msg) == [cls |-> cls, msg |-> msg]

\* isinstance(exc, ValueError): UnicodeDecodeError derives from ValueError
IsValueError(exc) == exc.cls \in {"ValueError", "UnicodeDecodeError"}

(***************************************************************************)
(* Strings as token sequences: uri.startswith, slicing, replace, split.    *)
(***************************************************************************)
Scheme == "mcp-docs://"
Slash == "/"

RECURSIVE Concat(_)
\* the Python string a token sequence stands for
Concat(toks) == IF toks = <<>> THEN "" ELSE Head(toks) \o Concat(Tail(toks))

StartsWithScheme(chars) == Len(chars) >= 1 /\ chars[1] = Scheme

\* uri[len("mcp-docs://"):]
StripPrefix(chars) == Tail(chars)

\* uri.replace("mcp-docs://", ""): every occurrence goes
ReplaceScheme(chars) == SelectSeq(chars, LAMBDA t : t # Scheme)

RECURSIVE SplitAcc(_, _, _)
SplitAcc(chars, cur, acc) ==
    IF chars = <<>> THEN Append(acc, Concat(cur))
    ELSE IF Head(chars) = Slash
         THEN SplitAcc(Tail(chars), <<>>, Append(acc, Concat(cur)))
         ELSE SplitAcc(Tail(chars), Append(cur, Head(chars)), acc)

\* s.split("/"): always at least one component, empty components kept
Split(chars) == SplitAcc(chars, <<>>, <<>>)

(***************************************************************************)
(* The documentation tree: a function from paths (sequences of names       *)
(* below mcp_root) to nodes.  The text of a file is a sequence of          *)
(* characters.                                                             *)
(***************************************************************************)
Dir == [kind |-> "dir", enc |-> "", text |-> <<>>]
File(text) == [kind |-> "file", enc |-> "utf-8", text |-> text]
\* a file whose bytes are not valid UTF-8
BinaryFile == [kind |-> "file", enc |-> "binary", text |-> <<>>]
\* a file the server's user may not read
DeniedFile == [kind |-> "file", enc |-> "denied", text |-> <<>>]

InfoText ==
    <<"{", "\"", "p", "r", "o", "j", "e", "c", "t", "_", "m", "e", "t", "a",
      "d", "a", "t", "a", "\"", ":", " ", "{", "\"", "n", "a", "m", "e",
      "\"", ":", " ", "\"", "d", "e", "m", "o", "\"", "}", "}">>
MetaText ==
    <<"{", "\"", "m", "o", "d", "u", "l", "e", "_", "m", "e", "t", "a", "d",
      "a", "t", "a", "\"", ":", " ", "{", "\"", "s", "t", "a", "t", "u", "s",
      "\"", ":", " ", "\"", "s", "t", "a", "b", "l", "e", "\"", "}", "}">>
ReadmeText ==
    <<"#", " ", "d", "e", "m", "o", " ", "c", "a", "c", "h", "e">>

\* json.load of a file's text: [ok, value]
JsonParse(text) ==
    CASE text = <<"{", "}">> -> [ok |-> TRUE, value |-> [none |-> FALSE, empty |-> TRUE]]
      [] text = InfoText ->
           [ok |-> TRUE,
            value |-> [none |-> FALSE, empty |-> FALSE, project_metadata |-> [name |-> "demo"]]]
      [] text = MetaText ->
           [ok |-> TRUE,
            value |-> [none |-> FALSE, empty |-> FALSE, module_metadata |-> [status |-> "stable"]]]
      [] OTHER -> [ok |-> FALSE, value |-> [none |-> TRUE, empty |-> TRUE]]

\* json.dumps(value, indent=2, ensure_ascii=False)
JsonDumps(value) == [dumps |-> value]

EmptyTree == (<<>> :> Dir)

FullTree ==
    (<<>> :> Dir) @@ (<<"Java">> :> Dir) @@ (<<"Java", "demo">> :> Dir)
    @@ (<<"Java", "demo", "project-info.json">> :> File(InfoText))
    @@ (<<"Java", "demo", "README.md">> :> File(ReadmeText))
    @@ (<<"Java", "demo", "core">> :> Dir)
    @@ (<<"Java", "demo", "core", "metadata.json">> :> File(MetaText))

BareTree ==
    (<<>> :> Dir) @@ (<<"Java">> :> Dir) @@ (<<"Java", "demo">> :> Dir)
    @@ (<<"Java", "demo", "core">> :> Dir)

CorruptTree ==
    (<<>> :> Dir) @@ (<<"Java">> :> Dir) @@ (<<"Java", "demo">> :> Dir)
    @@ (<<"Java", "demo", "project-info.json">> :> File(InfoText))
    @@ (<<"Java", "demo", "README.md">> :> BinaryFile)
    @@ (<<"Java", "demo", "core">> :> Dir)
    @@ (<<"Java", "demo", "core", "metadata.json">> :> File(<<"n", "o">>))

Trees == {EmptyTree, FullTree, BareTree, CorruptTree}

\* Path / name: joining an empty name gives the path back
PathJoin(path, name) == IF name = "" THEN path ELSE Append(path, name)

Exists(t, path) == path \in DOMAIN t

IsDir(t, path) == Exists(t, path) /\ t[path].kind = "dir"

\* open(path, 'r', encoding='utf-8').read(): [exc, text]
ReadText(t, path) ==
    IF ~Exists(t, path)
    THEN [exc |-> Raise("FileNotFoundError", "No such file or directory"), text |-> <<>>]
    ELSE IF t[path].kind = "dir"
    THEN [exc |-> Raise("IsADirectoryError", "Is a directory"), text |-> <<>>]
    ELSE IF t[path].enc = "denied"
    THEN [exc |-> Raise("PermissionError", "Permission denied"), text |-> <<>>]
    ELSE IF t[path].enc # "utf-8"
    THEN [exc |-> Raise("UnicodeDecodeError", "'utf-8' codec can't decode byte"), text |-> <<>>]
    ELSE [exc |-> NoExc, text |-> t[path].text]

\* the names directly below a directory
ChildNames(t, path) ==
    {p[Len(p)] : p \in {q \in DOMAIN t : Len(q) = Len(path) + 1 /\ SubSeq(q, 1, Len(path)) = path}}

\* the names of the six optional entries of a project directory
RubricOrder == <<"README.md", "API.md", "notes.md", "guide.md", "main.py", "src">>
RubricEntries == {RubricOrder[i] : i \in DOMAIN RubricOrder}

\* the name of the project that holds exactly the entries of S
RubricName(S) ==
    "p" \o (IF "README.md" \in S THEN "R" ELSE "-") \o (IF "API.md" \in S THEN "A" ELSE "-")
        \o (IF "notes.md" \in S THEN "n" ELSE "-") \o (IF "guide.md" \in S THEN "g" ELSE "-")
        \o (IF "main.py" \in S THEN "m" ELSE "-") \o (IF "src" \in S THEN "s" ELSE "-")

\* the entries one directory of the model may hold, in the order the file
\* system yields them
ListingOrder ==
    <<"mcp-config.json", "templates", "Java", "notes.md", "old.md", "demo", "tools",
      "project", "README.md", "API.md", "Api.md", "guide.md", "MODULE.md", "BOGUS.md", ".md",
      "project-info.json", "locked.md", "broken.md", "main.py", "src", "core", "module",
      "mcp-docs:", "metadata.json", "deep.md">>
    \o [k \in 1..64 |-> RubricName({RubricOrder[i] : i \in {j \in 1..6 :
                                          ((k - 1) \div (2 ^ (j - 1))) % 2 = 1}})]

RECURSIVE InOrder(_)
\* the members of a set in the one order the file system yields them
InOrder(names) ==
    IF names = {} THEN <<>>
    ELSE LET first == CHOOSE n \in names : TRUE
         IN <<first>> \o InOrder(names \ {first})

\* path.iterdir(): the children in the one order the file system yields them
Listed(names) ==
    SelectSeq(ListingOrder, LAMBDA n : n \in names)
    \o InOrder(names \ {ListingOrder[k] : k \in DOMAIN ListingOrder})

iterdir(t, path) == Listed(ChildNames(t, path))

RECURSIVE FlattenRange(_, _, _)
FlattenRange(lists, lo, hi) ==
    IF lo > hi THEN <<>>
    ELSE IF lo = hi THEN lists[lo]
    ELSE FlattenRange(lists, lo, (lo + hi) \div 2)
         \o FlattenRange(lists, (lo + hi) \div 2 + 1, hi)

\* what a loop leaves that extends one list by the items of each round
Flatten(lists) == FlattenRange(lists, 1, Len(lists))

RECURSIVE SumRange(_, _, _)
SumRange(numbers, lo, hi) ==
    IF lo > hi THEN 0
    ELSE IF lo = hi THEN numbers[lo]
    ELSE SumRange(numbers, lo, (lo + hi) \div 2) + SumRange(numbers, (lo + hi) \div 2 + 1, hi)

\* what a loop leaves that adds one number each round
Sum(numbers) == SumRange(numbers, 1, Len(numbers))

(***************************************************************************)
(* File names.  A name is a string; the code takes names apart (suffix,    *)
(* glob patterns, upper()), so every name of the model has a spelling: the *)
(* sequence of pieces whose concatenation it is.                           *)
(***************************************************************************)

Spellings ==
    {<<"README", ".md">>, <<"API", ".md">>, <<"api", ".md">>, <<"Api", ".md">>, <<"notes", ".md">>,
     <<"guide", ".md">>, <<"MODULE", ".md">>, <<"CODING-STANDARDS", ".md">>,
     <<"BOGUS", ".md">>, <<"locked", ".md">>, <<"broken", ".md">>, <<"deep", ".md">>,
     <<"old", ".md">>, <<".md">>, <<"main", ".py">>, <<"project-info", ".json">>,
     <<"metadata", ".json">>, <<"mcp-config", ".json">>, <<"src">>, <<"core">>,
     <<"Java">>, <<"templates">>, <<"demo">>, <<"tools">>, <<"project">>,
     <<"module">>, <<"readme">>, <<"mcp-docs:">>}

\* the spelling of a name; a name without one is a single piece
\* the pieces of every name the model spells
Spelled == [name \in {Concat(sp) : sp \in Spellings}
              |-> CHOOSE sp \in Spellings : Concat(sp) = name]

Spell(name) == IF name \in DOMAIN Spelled THEN Spelled[name] ELSE <<name>>

\* Path.suffix: the last piece when it starts with a dot and is not the
\* whole name
Suffix(name) ==
    LET sp == Spell(name)
    IN IF Len(sp) >= 2 /\ sp[Len(sp)] \in {".md", ".json", ".py"} THEN sp[Len(sp)] ELSE ""

\* fnmatch of a name against "*<ext>"; the pattern "*" matches every name
MatchesExt(name, ext) == ext = "*" \/ Spell(name)[Len(Spell(name))] = ext

\* fnmatch of a name against "*<word>*.md", letter case significant
MatchesWord(name, word) ==
    /\ Spell(name)[Len(Spell(name))] = ".md"
    /\ \E k \in 1..(Len(Spell(name)) - 1) : Spell(name)[k] = word

(***************************************************************************)
(* The trees the STDIO servers and the REST server are run on.             *)
(***************************************************************************)
\* mcp_root itself does not exist
NoRootTree == [p \in {} |-> Dir]

CacheText == <<"C", "a", "c", "h", "e", " ", "c", "a", "c", "h", "e">>
DeepText == <<"a", " ", "c", "a", "c", "h", "e", "s">>
TripleText == <<"a", "a", "a">>

\* one language directory with three projects, files the scans cannot read,
\* files outside every project, and names that are also type tags
DocsTree ==
    (<<>> :> Dir) @@ (<<"notes.md">> :> File(CacheText))
    @@ (<<"templates">> :> Dir) @@ (<<"templates", "demo">> :> Dir)
    @@ (<<"templates", "demo", "README.md">> :> File(CacheText))
    @@ (<<"Java">> :> Dir) @@ (<<"Java", "old.md">> :> File(CacheText))
    @@ (<<"Java", "demo">> :> Dir)
    @@ (<<"Java", "demo", "README.md">> :> File(CacheText))
    @@ (<<"Java", "demo", "project-info.json">> :> File(InfoText))
    @@ (<<"Java", "demo", "locked.md">> :> DeniedFile)
    @@ (<<"Java", "demo", "broken.md">> :> BinaryFile)
    @@ (<<"Java", "demo", "Api.md">> :> File(<<"#">>))
    @@ (<<"Java", "demo", "core">> :> Dir)
    @@ (<<"Java", "demo", "core", "metadata.json">> :> File(MetaText))
    @@ (<<"Java", "demo", "core", "deep.md">> :> File(DeepText))
    @@ (<<"Java", "tools">> :> Dir)
    @@ (<<"Java", "tools", "notes.md">> :> File(TripleText))
    @@ (<<"Java", "tools", "MODULE.md">> :> Dir)
    @@ (<<"Java", "project">> :> Dir)
    @@ (<<"Java", "project", "project-info.json">> :> File(InfoText))
    @@ (<<"Java", "project", "module">> :> Dir)
    @@ (<<"Java", "project", "module", "metadata.json">> :> File(MetaText))
    @@ (<<"Java", "project", "mcp-docs:">> :> Dir)
    @@ (<<"Java", "project", "mcp-docs:", "metadata.json">> :> File(<<"{", "}">>))

RubricText(entry) ==
    CASE entry = "README.md" -> CacheText
      [] entry = "API.md" -> <<"a", "p", "i">>
      [] entry = "notes.md" -> <<"a">>
      [] entry = "guide.md" -> DeepText
      [] OTHER -> <<"#">>

\* one project for every combination of the optional entries
RubricTree ==
    [p \in {<<>>, <<"Java">>}
           \cup {<<"Java", RubricName(S)>> : S \in SUBSET RubricEntries}
           \cup UNION {{<<"Java", RubricName(S), e>> : e \in S} : S \in SUBSET RubricEntries}
        |-> IF Len(p) < 3 \/ p[Len(p)] = "src" THEN Dir ELSE File(RubricText(p[3]))]

ToolTrees == {NoRootTree, EmptyTree, DocsTree, RubricTree}

\* a write_text that also leaves a copy of the text beside the file
WriteTextWithCopy(t, path, text) ==
    IF ~Exists(t, SubSeq(path, 1, Len(path) - 1)) \/ ~IsDir(t, SubSeq(path, 1, Len(path) - 1))
       \/ IsDir(t, path)
    THEN [exc |-> Raise("FileNotFoundError", "No such file or directory"), tree |-> t]
    ELSE [exc |-> NoExc,
          tree |-> Put(Put(t, path, File(text)),
                       Append(SubSeq(path, 1, Len(path) - 1), "old.md"), File(text))]

\* Path.write_text(content, encoding='utf-8'): [exc, tree]
WriteText(t, path, text) ==
    IF ~Exists(t, SubSeq(path, 1, Len(path) - 1))
    THEN [exc |-> Raise("FileNotFoundError", "No such file or directory"), tree |-> t]
    ELSE IF ~IsDir(t, SubSeq(path, 1, Len(path) - 1))
    THEN [exc |-> Raise("NotADirectoryError", "Not a directory"), tree |-> t]
    ELSE IF IsDir(t, path)
    THEN [exc |-> Raise("IsADirectoryError", "Is a directory"), tree |-> t]
    ELSE IF Exists(t, path) /\ t[path].enc = "denied"
    THEN [exc |-> Raise("PermissionError", "Permission denied"), tree |-> t]
    ELSE [exc |-> NoExc, tree |-> Put(t, path, File(text))]

RECURSIVE rglob(_, _, _)
\* the entries of a directory whose listing is `names`
ChildPaths(dir, names) == [k \in DOMAIN names |-> PathJoin(dir, names[k])]

rglobIn(t, dir, names, ext) ==
    SelectSeq(ChildPaths(dir, names), LAMBDA q : MatchesExt(q[Len(q)], ext))
    \o Flatten([k \in DOMAIN names |-> IF IsDir(t, PathJoin(dir, names[k]))
                                        THEN rglob(t, PathJoin(dir, names[k]), ext)
                                        ELSE <<>>])

\* directory.rglob("*<ext>"): the matching entries of the directory in the
\* order of its listing, then those of each subdirectory in turn
rglob(t, dir, ext) == rglobIn(t, dir, iterdir(t, dir), ext)

(***************************************************************************)
(* MCPDocumentationServer: configuration and resource readers.             *)
(***************************************************************************)
\* self.config["supported_languages"], loaded once at start-up
supported_languages == <<[name |-> "java", display_name |-> "Java"]>>

\* a missing value of an optional Python result
NoPath == [found |-> FALSE, path |-> <<>>]

_get_project_path(language, project) ==
    LET hits == {i \in DOMAIN supported_languages : supported_languages[i].name = language}
    IN IF hits = {} THEN NoPath
       ELSE LET i == CHOOSE i \in hits : \A j \in hits : i <= j
            IN [found |-> TRUE,
                path |-> PathJoin(PathJoin(<<>>, supported_languages[i].display_name), project)]

\* Python's None where parsed JSON is expected
NoJson == [none |-> TRUE, empty |-> TRUE]

\* the parsed JSON of a file, or None on any failure
_load_json_file(t, path) ==
    LET r == ReadText(t, path)
    IN IF r.exc # NoExc THEN NoJson
       ELSE IF JsonParse(r.text).ok THEN JsonParse(r.text).value ELSE NoJson

\* `if not value` on the result of _load_json_file: None and {} are falsy
Falsy(json) == json.none \/ json.empty

\* module_metadata.get("module_metadata", {})
GetModuleMetadata(json) ==
    IF "module_metadata" \in DOMAIN json THEN json.module_metadata ELSE [status |-> Absent]

\* the README text of a directory: "" when there is no README.md
OptionalReadme(t, dir) ==
    IF Exists(t, PathJoin(dir, "README.md"))
    THEN ReadText(t, PathJoin(dir, "README.md"))
    ELSE [exc |-> NoExc, text |-> <<>>]

RECURSIVE ModuleSummaries(_, _, _)
\* the loop over project_path.iterdir() that collects the module summaries
ModuleSummaries(t, project_path, names) ==
    IF names = <<>> THEN <<>>
    ELSE LET module_dir == PathJoin(project_path, Head(names))
             rest == ModuleSummaries(t, project_path, Tail(names))
             module_metadata == _load_json_file(t, PathJoin(module_dir, "metadata.json"))
         IN IF IsDir(t, module_dir) /\ Exists(t, PathJoin(module_dir, "metadata.json"))
               /\ ~Falsy(module_metadata)
            THEN <<[name |-> Head(names), metadata |-> GetModuleMetadata(module_metadata)]>>
                 \o rest
            ELSE rest

\* a reader's outcome: the exception it raised, or the text it returned
Failed(exc) == [exc |-> exc, text |-> [raw |-> <<>>]]
Returned(text) == [exc |-> NoExc, text |-> text]

_read_project_resource(t, language, project) ==
    LET project_path == _get_project_path(language, project)
        project_info == _load_json_file(t, PathJoin(project_path.path, "project-info.json"))
        readme == OptionalReadme(t, project_path.path)
    IN IF ~project_path.found \/ ~Exists(t, project_path.path)
       THEN Failed(Raise("FileNotFoundError", "project not found: " \o language \o "/" \o project))
       ELSE IF Falsy(project_info)
       THEN Failed(Raise("FileNotFoundError", "project metadata not found"))
       ELSE IF readme.exc # NoExc
       THEN Failed(readme.exc)
       ELSE IF ~IsDir(t, project_path.path)
       THEN Failed(Raise("NotADirectoryError", "Not a directory"))
       ELSE Returned(JsonDumps([project_info |-> project_info,
                                readme |-> readme.text,
                                modules |-> ModuleSummaries(t, project_path.path,
                                                            iterdir(t, project_path.path))]))

_read_readme_resource(t, language, project) ==
    LET project_path == _get_project_path(language, project)
        readme_path == PathJoin(project_path.path, "README.md")
        r == ReadText(t, readme_path)
    IN IF ~project_path.found
       THEN Failed(Raise("FileNotFoundError", "project not found: " \o language \o "/" \o project))
       ELSE IF ~Exists(t, readme_path)
       THEN Failed(Raise("FileNotFoundError", "README.md not found"))
       ELSE IF r.exc # NoExc
       THEN Failed(r.exc)
       ELSE Returned([raw |-> r.text])

_read_module_resource(t, language, project, module) ==
    LET project_path == _get_project_path(language, project)
        module_path == PathJoin(project_path.path, module)
        metadata == _load_json_file(t, PathJoin(module_path, "metadata.json"))
        readme == OptionalReadme(t, module_path)
    IN IF ~project_path.found
       THEN Failed(Raise("FileNotFoundError", "project not found: " \o language \o "/" \o project))
       ELSE IF ~Exists(t, module_path)
       THEN Failed(Raise("FileNotFoundError", "module not found: " \o module))
       ELSE IF readme.exc # NoExc
       THEN Failed(readme.exc)
       ELSE Returned(JsonDumps([metadata |-> metadata, readme |-> readme.text]))

(***************************************************************************)
(* http_server.py: resolving and reading a resource URI.                   *)
(***************************************************************************)
\* a JSON value in the place of params.uri
UriAbsent == [k |-> "absent", chars |-> <<>>]
UriString(chars) == [k |-> "string", chars |-> chars]
\* a non-zero JSON number where the URI string is expected
UriNumber == [k |-> "number", chars |-> <<>>]

\* Python truthiness of the value params.get("uri") returns
UriTruthy(uri) == uri.k = "number" \/ (uri.k = "string" /\ uri.chars # <<>>)

\* what a resource read gives back: the exception raised, or the contents list
ReadFailed(exc) == [exc |-> exc, contents |-> <<>>]

Contents(uri, mimeType, r) ==
    IF r.exc # NoExc THEN ReadFailed(r.exc)
    ELSE [exc |-> NoExc,
          contents |-> <<[uri |-> Concat(uri.chars), mimeType |-> mimeType, text |-> r.text]>>]

_read_resource_via_service(t, uri) ==
    IF uri.k # "string"
    THEN ReadFailed(Raise("AttributeError", "'int' object has no attribute 'startswith'"))
    ELSE IF ~StartsWithScheme(uri.chars)
    THEN ReadFailed(Raise("ValueError", "Unsupported URI scheme"))
    ELSE LET components == Split(StripPrefix(uri.chars))
             resource_type == components[1]
         IN IF resource_type = "project"
            THEN IF Len(components) < 3
                 THEN ReadFailed(Raise("IndexError", "list index out of range"))
                 ELSE Contents(uri, "application/json",
                               _read_project_resource(t, components[2], components[3]))
            ELSE IF resource_type = "readme"
            THEN IF Len(components) < 3
                 THEN ReadFailed(Raise("IndexError", "list index out of range"))
                 ELSE Contents(uri, "text/markdown",
                               _read_readme_resource(t, components[2], components[3]))
            ELSE IF resource_type = "module"
            THEN IF Len(components) < 4
                 THEN ReadFailed(Raise("IndexError", "list index out of range"))
                 ELSE Contents(uri, "application/json",
                               _read_module_resource(t, components[2], components[3],
                                                     components[4]))
            ELSE ReadFailed(Raise("ValueError", "Unknown resource type: " \o resource_type))

\* mcp_protocol_server.py: the STDIO server's reader of the same URIs; it
\* logs and re-raises whatever the resolution or the read raises
handle_read_resource(t, uri) ==
    IF ~StartsWithScheme(uri.chars)
    THEN Failed(Raise("ValueError", "unsupported URI format: " \o Concat(uri.chars)))
    ELSE LET path_parts == Split(ReplaceScheme(uri.chars))
             resource_type == path_parts[1]
         IN IF resource_type = "project"
            THEN IF Len(path_parts) < 3
                 THEN Failed(Raise("IndexError", "list index out of range"))
                 ELSE _read_project_resource(t, path_parts[2], path_parts[3])
            ELSE IF resource_type = "readme"
            THEN IF Len(path_parts) < 3
                 THEN Failed(Raise("IndexError", "list index out of range"))
                 ELSE _read_readme_resource(t, path_parts[2], path_parts[3])
            ELSE IF resource_type = "module"
            THEN IF Len(path_parts) < 4
                 THEN Failed(Raise("IndexError", "list index out of range"))
                 ELSE _read_module_resource(t, path_parts[2], path_parts[3], path_parts[4])
            ELSE Failed(Raise("ValueError", "unknown resource type: " \o resource_type))

(***************************************************************************)
(* http_server.py: the JSON-RPC dispatcher.                                *)
(***************************************************************************)
\* JSON values in the place of the envelope's params
ParamsAbsent == [k |-> "absent", n |-> 0]
ParamsNull == [k |-> "null", n |-> 0]
\* a JSON array of n items
ParamsArray(n) == [k |-> "array", n |-> n]
ParamsObject(protocolVersion, uri, name, arguments) ==
    [k |-> "object", n |-> 0, protocolVersion |-> protocolVersion, uri |-> uri,
     name |-> name, arguments |-> arguments]
EmptyObject == ParamsObject(Absent, UriAbsent, Absent, Absent)

\* Python truthiness of the envelope's params
ParamsTruthy(p) ==
    CASE p.k = "object" -> p # EmptyObject
      [] p.k = "array" -> p.n > 0
      [] OTHER -> FALSE

\* payload.get("params", {}) or {}
ParamsOrEmpty(p) == IF ParamsTruthy(p) THEN p ELSE EmptyObject

\* params.get(...) on a value that is no dict
NoGet == Raise("AttributeError", "'list' object has no attribute 'get'")

\* service.<name>(...): MCPDocumentationServer (mcp_protocol_server.py, lines
\* 27-460) defines neither tool_definitions nor collect_resources nor
\* execute_tool, so the attribute lookup raises
NoAttribute(name) ==
    Raise("AttributeError", "'MCPDocumentationServer' object has no attribute '" \o name \o "'")

\* the state of the try block when it is left: the response dict as built so
\* far, the session, and the exception in flight (NoExc when none)
Left(response, sess, exc) == [response |-> response, session |-> sess, exc |-> exc]

Capabilities ==
    [resources |-> [listChanged |-> FALSE], tools |-> [listChanged |-> FALSE],
     prompts |-> [listChanged |-> FALSE], logging |-> [levels |-> <<>>]]

\* lines 28-41
InitializeBranch(response, params, sess) ==
    LET marked == [sess EXCEPT !.initialized = TRUE]
        protocol_version == GetDefault(params.protocolVersion, "2024-11-05")
    IN IF params.k # "object" THEN Left(response, marked, NoGet)
       ELSE Left(Put(response, "result",
                     [protocolVersion |-> protocol_version,
                      capabilities |-> Capabilities,
                      serverInfo |-> [name |-> "mcp-docs-http", version |-> "1.0.0"]]),
                 [marked EXCEPT !.protocolVersion = protocol_version],
                 NoExc)

\* lines 43, 45, 47, 49: response["result"] = {...: service.<name>()}
ServiceListBranch(response, sess, name) == Left(response, sess, NoAttribute(name))

\* line 55, or the exception line 54 raised
ReadResult(response, sess, result) ==
    IF result.exc # NoExc THEN Left(response, sess, result.exc)
    ELSE Left(Put(response, "result", [contents |-> result.contents]), sess, NoExc)

\* lines 51-55 with a guard that turns an uninitialized session away
ReadResourceBranchGuarded(response, params, sess, t) ==
    IF ~sess.initialized
    THEN Left(response, sess, Raise("RuntimeError", "Server not initialized"))
    ELSE IF params.k # "object" THEN Left(response, sess, NoGet)
    ELSE IF ~UriTruthy(params.uri)
    THEN Left(response, sess, Raise("ValueError", "uri is required"))
    ELSE ReadResult(response, sess, _read_resource_via_service(t, params.uri))

\* lines 51-55
ReadResourceBranch(response, params, sess, t) ==
    IF params.k # "object" THEN Left(response, sess, NoGet)
    ELSE IF ~UriTruthy(params.uri)
    THEN Left(response, sess, Raise("ValueError", "uri is required"))
    ELSE ReadResult(response, sess, _read_resource_via_service(t, params.uri))

\* lines 57-71
CallToolBranch(response, params, sess) ==
    IF params.k # "object" THEN Left(response, sess, NoGet)
    ELSE IF Get(params.name) \in {None, ""}
    THEN Left(response, sess, Raise("ValueError", "name is required"))
    ELSE Left(response, sess, NoAttribute("execute_tool"))

\* str(method) inside the f-string of line 77
MethodText(method) == IF method = None THEN "None" ELSE method

\* line 77 with the assignment of the error left out
MethodNotFoundSilent(response, method) == response

\* line 77
MethodNotFound(response, method) ==
    Put(response, "error",
        [code |-> -32601, message |-> "Method not found: " \o MethodText(method)])

\* lines 27-77: the if/elif chain inside the try block
MethodBranch(response, method, params, sess, t) ==
    IF method = "initialize" THEN InitializeBranch(response, params, sess)
    ELSE IF method = "listTools"
    THEN ServiceListBranch(response, sess, "tool_definitions")
    ELSE IF method = ArrayValue
    THEN \* line 44: `method in {...}` hashes method, and a list has no hash
         Left(response, sess, Raise("TypeError", "unhashable type: 'list'"))
    ELSE IF method \in {"tools/list", "tools/list"}
    THEN ServiceListBranch(response, sess, "tool_definitions")
    ELSE IF method = "listResources"
    THEN ServiceListBranch(response, sess, "collect_resources")
    ELSE IF method = "resources/list"
    THEN ServiceListBranch(response, sess, "collect_resources")
    ELSE IF method = "readResource" \/ method = "resources/read"
    THEN ReadResourceBranch(response, params, sess, t)
    ELSE IF method = "callTool" THEN CallToolBranch(response, params, sess)
    ELSE IF method = "prompts/list"
    THEN Left(Put(response, "result", [prompts |-> <<>>]), sess, NoExc)
    ELSE IF method = "notifications/initialized"
    THEN Left(Put(response, "result", [acknowledged |-> TRUE]), sess, NoExc)
    ELSE Left(MethodNotFound(response, method), sess, NoExc)

\* lines 78-82: the except clauses
ExceptClause(response, exc) ==
    IF exc = NoExc THEN response
    ELSE IF IsValueError(exc)
    THEN Put(response, "error", [code |-> -32602, message |-> exc.msg])
    ELSE Put(response, "error", [code |-> -32000, message |-> exc.msg])

\* line 19
InvalidRequest(payload) == payload.k # "object" \/ Get(payload.jsonrpc) # "2.0"

\* what a call of _handle_json_rpc leaves: the exception that escaped it
\* (NoExc when it returned), the response it returned, the session after it,
\* and whether the try block of the method handlers was entered
Escaped(exc, sess) ==
    [exc |-> exc, response |-> [jsonrpc |-> "2.0"], session |-> sess, handler |-> FALSE]
Answered(response, sess, handler) ==
    [exc |-> NoExc, response |-> response, session |-> sess, handler |-> handler]

\* lines 78-85: leaving the try block and returning the response
Return(left) == Answered(ExceptClause(left.response, left.exc), left.session, TRUE)

\* lines 17, 23-77: the try block on the envelope's method and params
TryBlock(payload, sess, t) ==
    MethodBranch([jsonrpc |-> "2.0", id |-> Get(payload.id)],
                 Get(payload.method), ParamsOrEmpty(payload.params), sess, t)

_handle_json_rpc(payload, sess, t) ==
    IF payload.k # "object"
    THEN \* line 17: payload.get("id") on a value that is no dict
         Escaped(Raise("AttributeError", "object has no attribute 'get'"), sess)
    ELSE IF InvalidRequest(payload)
    THEN Answered(Put([jsonrpc |-> "2.0", id |-> Get(payload.id)], "error",
                      [code |-> -32600, message |-> "Invalid Request"]),
                  sess, FALSE)
    ELSE Return(TryBlock(payload, sess, t))

(***************************************************************************)
(* http_server.py: POST /.                                                 *)
(***************************************************************************)
\* the decoded body of a POST: one JSON value, a JSON array of values, or
\* bytes that request.json() cannot decode
Single(payload) == [k |-> "single", items |-> <<payload>>]
Batch(items) == [k |-> "list", items |-> items]
Unparseable == [k |-> "unparseable", items |-> <<>>]

RECURSIVE HandleAll(_, _, _)
\* one element of the comprehension: r is what _handle_json_rpc left for it
HandleNext(rest, t, acc, r) ==
    IF r.exc # NoExc
    THEN [acc EXCEPT !.exc = r.exc]
    ELSE HandleAll(rest, t,
                   [exc |-> NoExc,
                    responses |-> Append(acc.responses, r.response),
                    session |-> r.session,
                    handlers |-> Append(acc.handlers, r.handler)])

\* line 167: the list comprehension, element by element; an exception that
\* escapes one call ends the comprehension
HandleAll(items, t, acc) ==
    IF items = <<>> THEN acc
    ELSE HandleNext(Tail(items), t, acc, _handle_json_rpc(Head(items), acc.session, t))

\* the HTTP replies of the endpoint
ParseError ==
    [status |-> 400, json |-> "object",
     responses |-> <<[jsonrpc |-> "2.0", error |-> [code |-> -32700, message |-> "Parse error"],
                      id |-> None]>>]
JSONResponse(json, responses) == [status |-> 200, json |-> json, responses |-> responses]
\* an exception that leaves the route: the framework answers 500, no envelope
ServerError == [status |-> 500, json |-> "none", responses |-> <<>>]

\* lines 166-171: the reply once every call of _handle_json_rpc is done
Reply(body, done) ==
    IF done.exc # NoExc
    THEN [reply |-> ServerError, session |-> done.session, handlers |-> done.handlers]
    ELSE [reply |-> JSONResponse(IF body.k = "list" THEN "array" ELSE "object",
                                 done.responses),
          session |-> done.session, handlers |-> done.handlers]

\* lines 151-171: the reply, the session after it, and per response whether
\* the method handlers were entered
root_post(body, sess, t) ==
    IF body.k = "unparseable"
    THEN [reply |-> ParseError, session |-> sess, handlers |-> <<>>]
    ELSE Reply(body, HandleAll(body.items, t,
                               [exc |-> NoExc, responses |-> <<>>, session |-> sess,
                                handlers |-> <<>>]))

(***************************************************************************)
(* The requests the model posts.                                           *)
(***************************************************************************)
Envelope(tag, id, method, params) ==
    [k |-> "object", jsonrpc |-> tag, id |-> id, method |-> method, params |-> params]

\* JSON values that are no object
NonObjects == {[k |-> "string"], [k |-> "number"], [k |-> "null"]}
NestedArray == [k |-> "array"]

Tags == {"2.0", "1.0", Absent}
Ids == {Absent, "1", "2"}
ReadMethods == {"readResource", "resources/read"}
Methods ==
    {"initialize", "listTools", "tools/list", "listResources", "resources/list",
     "callTool", "prompts/list", "notifications/initialized", "bogus", Absent, ArrayValue}
    \cup ReadMethods

RECURSIVE Join(_)
\* "/".join(names) as tokens
Join(names) ==
    IF names = <<>> THEN <<>>
    ELSE IF Len(names) = 1 THEN <<names[1]>>
    ELSE <<names[1], Slash>> \o Join(Tail(names))

TypeTags == {"project", "readme", "module", "bogus"}
SegNames == {"java", "demo", "core"}
SegLists == UNION {[1..n -> SegNames] : n \in 0..MaxSegs}

\* mcp-docs://<type>/<seg>/...
UriOf(type, segs) == UriString(<<Scheme>> \o Join(<<type>> \o segs))

Uris ==
    {UriOf(type, segs) : type \in TypeTags, segs \in SegLists}
    \cup {UriString(<<Scheme>>),
          UriString(<<Scheme, "project", Slash, "java", Slash, "demo", Slash>>),
          UriString(<<"http://", "project", Slash, "java", Slash, "demo">>)}

WithVersion(v) == ParamsObject(v, UriAbsent, Absent, Absent)
WithUri(u) == ParamsObject(Absent, u, Absent, Absent)
WithName(name) == ParamsObject(Absent, UriAbsent, name, Absent)

SomeParams ==
    {ParamsAbsent, ParamsNull, ParamsArray(0), ParamsArray(1), EmptyObject,
     WithVersion("2025-03-26"), WithVersion(None),
     WithUri(UriOf("project", <<"java", "demo">>)), WithUri(UriString(<<>>)),
     WithUri(UriNumber), WithName(""), WithName("search_documentation")}

Envelopes ==
    {Envelope(tag, id, method, params) :
        tag \in Tags, id \in Ids, method \in Methods, params \in SomeParams}
    \cup {Envelope("2.0", "1", method, WithUri(u)) : method \in ReadMethods, u \in Uris}

BatchItems ==
    {Envelope("2.0", "1", "initialize", WithVersion("2025-03-26")),
     Envelope("2.0", "2", "initialize", ParamsArray(1)),
     Envelope("2.0", "2", "bogus", ParamsAbsent),
     Envelope("1.0", "1", "prompts/list", ParamsAbsent),
     Envelope("2.0", Absent, "notifications/initialized", ParamsAbsent),
     Envelope("2.0", "1", "resources/read", WithUri(UriOf("readme", <<"java", "demo">>))),
     Envelope("2.0", "2", "resources/read", WithUri(UriOf("module", <<"java", "demo">>))),
     Envelope("2.0", "1", "callTool", WithName("search_documentation")),
     [k |-> "number"], NestedArray}

Batches == UNION {[1..n -> BatchItems] : n \in 0..MaxBatch}

(***************************************************************************)
(* The state machine: app.state.session, the documentation tree, and the   *)
(* request/reply exchange on the wire.                                     *)
(***************************************************************************)
\* lines 127-130
NewSession == [initialized |-> FALSE, protocolVersion |-> None]

Idle ==
    [phase |-> "idle", body |-> Unparseable, reply |-> ServerError, before |-> NewSession,
     handlers |-> <<>>]

\* no MCPAutoUpdater runs beside the servers
NoUpdater == [file_hashes |-> <<>>, now |-> 0]

Init ==
    /\ session = NewSession
    /\ tree \in Trees
    /\ exchange = Idle
    /\ updater = NoUpdater

\* the state after a POST that root_post answered with r
Replied(body, r) ==
    /\ session' = r.session
    /\ exchange' = [phase |-> "replied", body |-> body, reply |-> r.reply,
                    before |-> session, handlers |-> r.handlers]
    /\ UNCHANGED <<tree, updater>>

\* one POST / handled from decoding to the reply
Post(body) == Replied(body, root_post(body, session, tree))

\* a body that holds one JSON value
PostSingle ==
    /\ exchange.phase = "idle"
    /\ \E payload \in Envelopes \cup NonObjects : Post(Single(payload))

\* a body that holds a JSON array
PostBatch ==
    /\ exchange.phase = "idle"
    /\ \E items \in Batches : Post(Batch(items))

\* a body that is no JSON
PostUnparseable ==
    /\ exchange.phase = "idle"
    /\ Post(Unparseable)

\* the reply leaves on the connection
SendResponse ==
    /\ exchange.phase = "replied"
    /\ exchange' = Idle
    /\ UNCHANGED <<session, tree, updater>>

Next == PostSingle \/ PostBatch \/ PostUnparseable \/ SendResponse

Spec == Init /\ [][Next]_vars

(***************************************************************************)
(* mcp_protocol_server.py: the resource listing and the resolution of the  *)
(* URIs it composes.                                                       *)
(***************************************************************************)
Resource(chars, mimeType) == [uri |-> UriString(chars), mimeType |-> mimeType]

\* lines 75-80
ProjectResource(language, project_name) ==
    Resource(<<Scheme, "project", Slash, language, Slash, project_name>>, "application/json")

\* lines 85-90
ReadmeResource(language, project_name) ==
    Resource(<<Scheme, "readme", Slash, language, Slash, project_name>>, "text/markdown")

\* lines 96-101 with the project segment left out of the URI
ModuleResourceFlat(language, project_name, module_name) ==
    Resource(<<Scheme, "module", Slash, language, Slash, module_name>>, "application/json")

\* lines 96-101
ModuleResource(language, project_name, module_name) ==
    Resource(<<Scheme, "module", Slash, language, Slash, project_name, Slash, module_name>>,
             "application/json")

RECURSIVE ModuleResources(_, _, _, _)
\* lines 93-101: the loop over project_dir.iterdir()
ModuleResources(t, lang_config, project_dir, names) ==
    IF names = <<>> THEN <<>>
    ELSE (IF IsDir(t, PathJoin(project_dir, Head(names)))
             /\ Exists(t, PathJoin(PathJoin(project_dir, Head(names)), "metadata.json"))
          THEN <<ModuleResource(lang_config.name, project_dir[Len(project_dir)], Head(names))>>
          ELSE <<>>)
         \o ModuleResources(t, lang_config, project_dir, Tail(names))

\* lines 68-101: one round of the loop over lang_dir.iterdir()
ResourcesOfProject(t, lang_config, lang_dir, name) ==
    IF ~IsDir(t, PathJoin(lang_dir, name)) THEN <<>>
    ELSE <<ProjectResource(lang_config.name, name)>>
         \o (IF Exists(t, PathJoin(PathJoin(lang_dir, name), "README.md"))
             THEN <<ReadmeResource(lang_config.name, name)>>
             ELSE <<>>)
         \o ModuleResources(t, lang_config, PathJoin(lang_dir, name),
                            iterdir(t, PathJoin(lang_dir, name)))

\* lines 67-101: the loop over lang_dir.iterdir()
ProjectResources(t, lang_config, lang_dir, names) ==
    Flatten([k \in DOMAIN names |-> ResourcesOfProject(t, lang_config, lang_dir, names[k])])

RECURSIVE LanguageResources(_, _)
\* lines 62-101: the loop over the configured languages
LanguageResources(t, configs) ==
    IF configs = <<>> THEN <<>>
    ELSE (IF ~Exists(t, <<Head(configs).display_name>>) THEN <<>>
          ELSE ProjectResources(t, Head(configs), <<Head(configs).display_name>>,
                                iterdir(t, <<Head(configs).display_name>>)))
         \o LanguageResources(t, Tail(configs))

\* a listing answered from the tree as it was when the server started
ListingAtStart(t) ==
    LanguageResources(CHOOSE t0 \in ToolTrees :
                          Cardinality({q \in DOMAIN t0 \cup DOMAIN t :
                                          q \notin DOMAIN t0 \/ q \notin DOMAIN t
                                          \/ t0[q] # t[q]}) <= 1,
                      supported_languages)

handle_list_resources(t) == LanguageResources(t, supported_languages)

\* what a resolution gives: the exception raised, or the type tag and the
\* segments handed to the reader
NotLocated(exc) == [exc |-> exc, type |-> "", segs |-> <<>>]
Located(type, segs) == [exc |-> NoExc, type |-> type, segs |-> segs]

\* the if/elif chain on the type tag, shared by the two resolvers
LocatorOf(parts, unknown) ==
    IF parts[1] \in {"project", "readme"}
    THEN IF Len(parts) < 3 THEN NotLocated(Raise("IndexError", "list index out of range"))
         ELSE Located(parts[1], <<parts[2], parts[3]>>)
    ELSE IF parts[1] = "module"
    THEN IF Len(parts) < 4 THEN NotLocated(Raise("IndexError", "list index out of range"))
         ELSE Located(parts[1], <<parts[2], parts[3], parts[4]>>)
    ELSE NotLocated(Raise("ValueError", unknown \o parts[1]))

\* handle_read_resource, lines 110-129: the locator it reads
StdioLocator(uri) ==
    IF ~StartsWithScheme(uri.chars)
    THEN NotLocated(Raise("ValueError", "unsupported URI format: " \o Concat(uri.chars)))
    ELSE LocatorOf(Split(ReplaceScheme(uri.chars)), "unknown resource type: ")

\* _read_resource_via_service, lines 89-106: the locator it reads
HttpLocator(uri) ==
    IF ~StartsWithScheme(uri.chars)
    THEN NotLocated(Raise("ValueError", "Unsupported URI scheme"))
    ELSE LocatorOf(Split(StripPrefix(uri.chars)), "Unknown resource type: ")

(***************************************************************************)
(* Python string methods on sequences of characters.                       *)
(***************************************************************************)
UpperLetters ==
    <<"A", "B", "C", "D", "E", "F", "G", "H", "I", "J", "K", "L", "M", "N", "O", "P", "Q",
      "R", "S", "T", "U", "V", "W", "X", "Y", "Z">>
LowerLetters ==
    <<"a", "b", "c", "d", "e", "f", "g", "h", "i", "j", "k", "l", "m", "n", "o", "p", "q",
      "r", "s", "t", "u", "v", "w", "x", "y", "z">>

LowerChar(c) ==
    IF \E i \in DOMAIN UpperLetters : UpperLetters[i] = c
    THEN LowerLetters[CHOOSE i \in DOMAIN UpperLetters : UpperLetters[i] = c]
    ELSE c

\* s.lower()
lower(chars) == [i \in DOMAIN chars |-> LowerChar(chars[i])]

Whitespace == {" ", "\t", "\n"}

RECURSIVE SplitWs(_, _, _)
SplitWs(chars, cur, acc) ==
    IF chars = <<>> THEN (IF cur = <<>> THEN acc ELSE Append(acc, cur))
    ELSE IF Head(chars) \in Whitespace
         THEN SplitWs(Tail(chars), <<>>, IF cur = <<>> THEN acc ELSE Append(acc, cur))
         ELSE SplitWs(Tail(chars), Append(cur, Head(chars)), acc)

\* s.split(): the runs of characters between whitespace, none of them empty
split(chars) == SplitWs(chars, <<>>, <<>>)

\* the first position at or behind i where term occurs in content, 0 when
\* there is none
FindFrom(content, term, i) ==
    IF \E k \in i..(Len(content) - Len(term) + 1) : SubSeq(content, k, k + Len(term) - 1) = term
    THEN CHOOSE k \in i..(Len(content) - Len(term) + 1) :
             /\ SubSeq(content, k, k + Len(term) - 1) = term
             /\ \A j \in i..(k - 1) : SubSeq(content, j, j + Len(term) - 1) # term
    ELSE 0

RECURSIVE CountFrom(_, _, _)
CountFrom(content, term, i) ==
    IF FindFrom(content, term, i) = 0 THEN 0
    ELSE 1 + CountFrom(content, term, FindFrom(content, term, i) + Len(term))

\* whether term occurs in content at all, as a number
countPresence(content, term) ==
    IF term = <<>> THEN 1 ELSE IF FindFrom(content, term, 1) = 0 THEN 0 ELSE 1

\* content.count(term): occurrences found from left to right, the search
\* resuming behind each occurrence
count(content, term) ==
    IF term = <<>> THEN Len(content) + 1 ELSE CountFrom(content, term, 1)

\* content[:n]
Slice(content, n) == SubSeq(content, 1, IF Len(content) < n THEN Len(content) ELSE n)

Ellipsis == <<".", ".", ".">>

(***************************************************************************)
(* mcp_protocol_server.py: _search_documentation.                          *)
(***************************************************************************)
\* line 347: the length of a preview
PreviewLen == 200
\* line 357: the most hits a search returns
MaxResults == 20

\* Python truthiness of an optional string argument
Given(arg) == arg # None /\ arg # ""

RECURSIVE SumCounts(_, _)
\* line 340: sum(content.count(term) for term in search_terms)
SumCounts(content, search_terms) ==
    IF search_terms = <<>> THEN 0
    ELSE count(content, Head(search_terms)) + SumCounts(content, Tail(search_terms))

\* lines 336-350 for one file: the hit it adds to results, if any
FileHits(t, lang_config, project_name, file_path, search_terms) ==
    IF ReadText(t, file_path).exc # NoExc THEN <<>>
    ELSE IF SumCounts(lower(ReadText(t, file_path).text), search_terms) > 0
    THEN <<[language |-> lang_config.name,
            project |-> project_name,
            file |-> file_path[Len(file_path)],
            score |-> SumCounts(lower(ReadText(t, file_path).text), search_terms),
            preview |-> Slice(lower(ReadText(t, file_path).text), PreviewLen) \o Ellipsis]>>
    ELSE <<>>

RECURSIVE ScanFilesUntilUnreadable(_, _, _, _, _)
\* the loop leaving at the first file it cannot read
ScanFilesUntilUnreadable(t, lang_config, project_name, files, search_terms) ==
    IF files = <<>> THEN <<>>
    ELSE IF ReadText(t, Head(files)).exc # NoExc THEN <<>>
    ELSE FileHits(t, lang_config, project_name, Head(files), search_terms)
         \o ScanFilesUntilUnreadable(t, lang_config, project_name, Tail(files),
                                     search_terms)

RECURSIVE ScanFiles(_, _, _, _, _)
\* lines 335-350: the loop over project_dir.rglob("*.md")
ScanFiles(t, lang_config, project_name, files, search_terms) ==
    IF files = <<>> THEN <<>>
    ELSE FileHits(t, lang_config, project_name, Head(files), search_terms)
         \o ScanFiles(t, lang_config, project_name, Tail(files), search_terms)

\* lines 329-350: one round of the loop over lang_dir.iterdir()
ScanProject(t, lang_config, lang_dir, name, project, search_terms) ==
    IF ~IsDir(t, PathJoin(lang_dir, name)) THEN <<>>
    ELSE IF Given(project) /\ name # project THEN <<>>
    ELSE ScanFiles(t, lang_config, name, rglob(t, PathJoin(lang_dir, name), ".md"),
                   search_terms)

\* lines 328-350: the loop over lang_dir.iterdir()
ScanProjects(t, lang_config, lang_dir, names, project, search_terms) ==
    Flatten([k \in DOMAIN names
               |-> ScanProject(t, lang_config, lang_dir, names[k], project, search_terms)])

RECURSIVE ScanLanguages(_, _, _, _, _)
\* lines 320-350: the loop over the configured languages
ScanLanguages(t, configs, language, project, search_terms) ==
    IF configs = <<>> THEN <<>>
    ELSE (IF Given(language) /\ Head(configs).name # language THEN <<>>
          ELSE IF ~Exists(t, <<Head(configs).display_name>>) THEN <<>>
          ELSE ScanProjects(t, Head(configs), <<Head(configs).display_name>>,
                            iterdir(t, <<Head(configs).display_name>>), project,
                            search_terms))
         \o ScanLanguages(t, Tail(configs), language, project, search_terms)

\* the hits of one score, in the order they were found, back to front
EqualScoreReversed(results, score) ==
    [k \in DOMAIN SelectSeq(results, LAMBDA r : r.score = score)
       |-> SelectSeq(results, LAMBDA r : r.score = score)[
               Len(SelectSeq(results, LAMBDA r : r.score = score)) + 1 - k]]

\* the hits of one score, in the order they were found
EqualScore(results, score) == SelectSeq(results, LAMBDA r : r.score = score)

TopScore(scores) == CHOOSE s \in scores : \A u \in scores : u <= s

RECURSIVE SortLevels(_, _)
SortLevels(results, scores) ==
    IF scores = {} THEN <<>>
    ELSE EqualScore(results, TopScore(scores))
         \o SortLevels(results, scores \ {TopScore(scores)})

\* results.sort(key=lambda x: x["score"], reverse=True): list.sort is stable,
\* also with reverse=True, so the hits come out score by score from the
\* highest down, those of one score in the order they went in
SortByScore(results) ==
    SortLevels(results, {results[i].score : i \in DOMAIN results})

\* lines 352-358
SearchResult(query, sorted) ==
    [query |-> query, total_results |-> Len(sorted), results |-> Slice(sorted, MaxResults)]

_search_documentation(t, query, language, project) ==
    SearchResult(query,
                 SortByScore(ScanLanguages(t, supported_languages, language, project,
                                           split(lower(query)))))

(***************************************************************************)
(* mcp_protocol_server.py: the tools and handle_call_tool.  The arguments  *)
(* of a tool call are a dict: a function from the keys present to values.  *)
(***************************************************************************)
\* arguments.get(key, default)
Arg(arguments, key, default) ==
    IF key \in DOMAIN arguments THEN arguments[key] ELSE default

\* f(**arguments) for a function with the parameters `allowed`, those of
\* `required` without a default; var_kw: whether it ends with **kwargs
BindError(arguments, required, allowed, var_kw) ==
    IF ~var_kw /\ ~(DOMAIN arguments \subseteq allowed)
    THEN Raise("TypeError", "got an unexpected keyword argument")
    ELSE IF ~(required \subseteq DOMAIN arguments)
    THEN Raise("TypeError", "missing required positional argument")
    ELSE NoExc

\* a tool's outcome before it is serialized: the exception it raised, or
\* the value it returned
ToolFailed(exc) == [exc |-> exc, value |-> [none |-> TRUE]]
ToolReturned(value) == [exc |-> NoExc, value |-> value]

\* module_info.get("status", "unknown")
ModuleStatus(json) ==
    IF GetModuleMetadata(json).status = Absent THEN "unknown"
    ELSE GetModuleMetadata(json).status

RECURSIVE ModuleInfos(_, _, _)
\* lines 374-383: the loop over project_path.iterdir()
ModuleInfos(t, project_path, names) ==
    IF names = <<>> THEN <<>>
    ELSE (IF IsDir(t, PathJoin(project_path, Head(names)))
             /\ Exists(t, PathJoin(PathJoin(project_path, Head(names)), "metadata.json"))
             /\ ~Falsy(_load_json_file(t, PathJoin(PathJoin(project_path, Head(names)),
                                                   "metadata.json")))
          THEN <<[name |-> Head(names),
                  status |-> ModuleStatus(_load_json_file(
                                 t, PathJoin(PathJoin(project_path, Head(names)),
                                             "metadata.json"))),
                  description |-> ""]>>
          ELSE <<>>)
         \o ModuleInfos(t, project_path, Tail(names))

\* lines 392-399: no metadata of the model declares external dependencies
Analysis(language, project, modules) ==
    [project |-> project, language |-> language, modules |-> modules,
     module_count |-> Len(modules), external_dependencies |-> <<>>, dependency_count |-> 0]

_analyze_project_structure(t, language, project) ==
    IF ~_get_project_path(language, project).found
       \/ ~Exists(t, _get_project_path(language, project).path)
    THEN ToolFailed(Raise("FileNotFoundError",
                          "project not found: " \o language \o "/" \o project))
    ELSE IF Falsy(_load_json_file(t, PathJoin(_get_project_path(language, project).path,
                                              "project-info.json")))
    THEN ToolFailed(Raise("FileNotFoundError", "project metadata not found"))
    ELSE IF ~IsDir(t, _get_project_path(language, project).path)
    THEN ToolFailed(Raise("NotADirectoryError", "Not a directory"))
    ELSE ToolReturned(Analysis(language, project,
                               ModuleInfos(t, _get_project_path(language, project).path,
                                           iterdir(t, _get_project_path(language,
                                                                        project).path))))

\* lines 414-417: the loop over lang_dir.iterdir()
CountFiles(t, lang_dir, names) ==
    Sum([k \in DOMAIN names |-> IF IsDir(t, PathJoin(lang_dir, names[k]))
                                THEN Len(rglob(t, PathJoin(lang_dir, names[k]), ".md"))
                                     + Len(rglob(t, PathJoin(lang_dir, names[k]), ".json"))
                                ELSE 0])

RECURSIVE CountAll(_, _)
\* lines 411-417: the loop over the configured languages
CountAll(t, configs) ==
    IF configs = <<>> THEN 0
    ELSE (IF Exists(t, <<Head(configs).display_name>>)
          THEN CountFiles(t, <<Head(configs).display_name>>,
                          iterdir(t, <<Head(configs).display_name>>))
          ELSE 0)
         + CountAll(t, Tail(configs))

\* lines 406-425: issues stays empty, so the score is max(0, 100 - 0 * 5)
_check_documentation_quality(t, scope) ==
    [scope |-> scope,
     total_files_checked |-> IF scope = "all" THEN CountAll(t, supported_languages) ELSE 0,
     issues_found |-> 0,
     issues |-> <<>>,
     quality_score |-> IF 100 - 0 * 5 > 0 THEN 100 - 0 * 5 ELSE 0]

\* types.TextContent(type="text", text=...): the text is the output of
\* json.dumps, or a string built by an f-string
JsonBlock(value) == [type |-> "text", text |-> JsonDumps(value)]
PlainBlock(message) == [type |-> "text", text |-> [plain |-> message]]

\* lines 225-235: the one text block handle_call_tool returns
ProtocolBlocks(outcome) ==
    IF outcome.exc # NoExc THEN <<PlainBlock("error: " \o outcome.exc.msg)>>
    ELSE <<JsonBlock(outcome.value)>>

\* self._<tool>(**arguments): the binding, then the call
ProtocolTool(t, name, arguments) ==
    IF name = "search_documentation"
    THEN IF BindError(arguments, {"query"}, {"query", "language", "project"}, FALSE) # NoExc
         THEN ToolFailed(BindError(arguments, {"query"}, {"query", "language", "project"},
                                   FALSE))
         ELSE ToolReturned(_search_documentation(t, arguments["query"],
                                                 Arg(arguments, "language", None),
                                                 Arg(arguments, "project", None)))
    ELSE IF name = "analyze_project_structure"
    THEN IF BindError(arguments, {"language", "project"}, {"language", "project"}, FALSE)
            # NoExc
         THEN ToolFailed(BindError(arguments, {"language", "project"},
                                   {"language", "project"}, FALSE))
         ELSE _analyze_project_structure(t, arguments["language"], arguments["project"])
    ELSE IF name = "check_documentation_quality"
    THEN IF BindError(arguments, {"scope"}, {"scope"}, TRUE) # NoExc
         THEN ToolFailed(BindError(arguments, {"scope"}, {"scope"}, TRUE))
         ELSE ToolReturned(_check_documentation_quality(t, arguments["scope"]))
    ELSE ToolFailed(Raise("ValueError", "unknown tool: " \o name))

\* mcp_protocol_server.py, lines 212-235: what the handler leaves: the
\* exception that left it (none: it catches every one), the content and the tree
ProtocolCallTool(t, name, arguments) ==
    [exc |-> NoExc, content |-> ProtocolBlocks(ProtocolTool(t, name, arguments)),
     tree |-> t]

(***************************************************************************)
(* continue_full_compatible.py: the six tools of handle_call_tool.  The    *)
(* server addresses a language by the name of its directory.               *)
(***************************************************************************)
\* line 481: the length of a preview
ContinuePreviewLen == 300

\* `query in content`
Contains(content, query) ==
    \E i \in 1..(Len(content) - Len(query) + 1) :
        SubSeq(content, i, i + Len(query) - 1) = query

\* the path of an entry relative to a directory above it
RelativeTo(path, dir) == SubSeq(path, Len(dir) + 1, Len(path))

\* line 481: content[:300] + "..." if len(content) > 300 else content
ContinuePreview(content) ==
    IF Len(content) > ContinuePreviewLen
    THEN Slice(content, ContinuePreviewLen) \o Ellipsis
    ELSE content

\* lines 472-484 for one file: the result it adds, if any
ContinueFileHits(t, lang_name, project_dir, file_path, query) ==
    IF ~Exists(t, file_path) \/ ReadText(t, file_path).exc # NoExc THEN <<>>
    ELSE IF Contains(lower(ReadText(t, file_path).text), query)
    THEN <<[language |-> lang_name,
            project |-> project_dir[Len(project_dir)],
            file |-> RelativeTo(file_path, project_dir),
            match |-> query,
            preview |-> ContinuePreview(ReadText(t, file_path).text)]>>
    ELSE <<>>

RECURSIVE ContinueScanFiles(_, _, _, _, _)
\* lines 471-484: the loop over project_dir.rglob("*.md")
ContinueScanFiles(t, lang_name, project_dir, files, query) ==
    IF files = <<>> THEN <<>>
    ELSE ContinueFileHits(t, lang_name, project_dir, Head(files), query)
         \o ContinueScanFiles(t, lang_name, project_dir, Tail(files), query)

\* lines 469-484: the loop over lang_dir.glob("*")
ContinueScanProjects(t, lang_dir, names, query) ==
    Flatten([k \in DOMAIN names
               |-> IF IsDir(t, PathJoin(lang_dir, names[k]))
                   THEN ContinueScanFiles(t, lang_dir[Len(lang_dir)],
                                          PathJoin(lang_dir, names[k]),
                                          rglob(t, PathJoin(lang_dir, names[k]), ".md"),
                                          query)
                   ELSE <<>>])

\* lines 465-467, 497-499: the language directories a tool visits
Visited(t, name, language) ==
    IsDir(t, <<name>>) /\ name # "templates" /\ (language = "all" \/ language = name)

RECURSIVE ContinueScanLanguages(_, _, _, _)
\* lines 464-484: the loop over mcp_root.glob("*")
ContinueScanLanguages(t, names, language, query) ==
    IF names = <<>> THEN <<>>
    ELSE (IF Visited(t, Head(names), language)
          THEN ContinueScanProjects(t, <<Head(names)>>, iterdir(t, <<Head(names)>>), query)
          ELSE <<>>)
         \o ContinueScanLanguages(t, Tail(names), language, query)

\* lines 459-489
ContinueSearch(t, arguments) ==
    [query |-> lower(Arg(arguments, "query", <<>>)),
     language |-> Arg(arguments, "language", "all"),
     results |-> IF Exists(t, <<>>)
                 THEN ContinueScanLanguages(t, iterdir(t, <<>>),
                                            Arg(arguments, "language", "all"),
                                            lower(Arg(arguments, "query", <<>>)))
                 ELSE <<>>]

\* lines 501-508: the loop over lang_dir.glob("*")
ListedProjects(t, lang_dir, names) ==
    Flatten([k \in DOMAIN names
               |-> IF IsDir(t, PathJoin(lang_dir, names[k]))
                   THEN <<[language |-> lang_dir[Len(lang_dir)],
                           project |-> names[k],
                           path |-> PathJoin(lang_dir, names[k]),
                           files_count |-> Len(rglob(t, PathJoin(lang_dir, names[k]),
                                                     "*"))]>>
                   ELSE <<>>])

RECURSIVE ListedLanguages(_, _, _)
\* lines 496-508: the loop over mcp_root.glob("*")
ListedLanguages(t, names, language) ==
    IF names = <<>> THEN <<>>
    ELSE (IF Visited(t, Head(names), language)
          THEN ListedProjects(t, <<Head(names)>>, iterdir(t, <<Head(names)>>))
          ELSE <<>>)
         \o ListedLanguages(t, Tail(names), language)

\* lines 492-513
ContinueListProjects(t, arguments) ==
    [language |-> Arg(arguments, "language", "all"),
     projects |-> IF Exists(t, <<>>)
                  THEN ListedLanguages(t, iterdir(t, <<>>), Arg(arguments, "language", "all"))
                  ELSE <<>>]

\* lines 523-526: the directories the project is looked for in
SearchDirs(t, language) ==
    IF language # "" THEN <<<<language>>>>
    ELSE ChildPaths(<<>>, SelectSeq(iterdir(t, <<>>),
                                    LAMBDA n : IsDir(t, <<n>>) /\ n # "templates"))

RECURSIVE FirstProjectDir(_, _, _)
\* lines 528-530: the first search directory that holds the project, if any
FirstProjectDir(t, search_dirs, project_name) ==
    IF search_dirs = <<>> THEN [found |-> FALSE, path |-> <<>>, language |-> ""]
    ELSE IF Exists(t, PathJoin(Head(search_dirs), project_name))
    THEN [found |-> TRUE, path |-> PathJoin(Head(search_dirs), project_name),
          language |-> Head(search_dirs)[1]]
    ELSE FirstProjectDir(t, Tail(search_dirs), project_name)

\* the project directory a tool works on: none when mcp_root is missing
FindProject(t, arguments) ==
    IF ~Exists(t, <<>>) THEN [found |-> FALSE, path |-> <<>>, language |-> ""]
    ELSE FirstProjectDir(t, SearchDirs(t, Arg(arguments, "language", "")),
                         Arg(arguments, "project_name", ""))

\* one entry of the listings of lines 541-546 and 592-609
FileEntry(t, project_dir, q) ==
    [type |-> IF IsDir(t, q) THEN "directory" ELSE "file",
     name |-> q[Len(q)],
     path |-> RelativeTo(q, project_dir),
     size |-> Len(t[q].text),
     suffix |-> Suffix(q[Len(q)])]

EntriesOf(t, project_dir, paths) ==
    [k \in DOMAIN paths |-> FileEntry(t, project_dir, paths[k])]

\* lines 539-546, 590-610: the entries below the project directory
FileEntries(t, project_dir, want_dirs) ==
    EntriesOf(t, project_dir,
              SelectSeq(rglob(t, project_dir, "*"), LAMBDA q : want_dirs \/ ~IsDir(t, q)))

\* lines 549-554: the README of the project, when it has one
ReadmeField(t, project_dir) ==
    IF ~Exists(t, PathJoin(project_dir, "README.md")) THEN [present |-> FALSE, text |-> <<>>]
    ELSE IF ReadText(t, PathJoin(project_dir, "README.md")).exc # NoExc
    THEN [present |-> TRUE, text |-> <<"E", "r", "r", "o", "r">>]
    ELSE [present |-> TRUE, text |-> ReadText(t, PathJoin(project_dir, "README.md")).text]

\* the first fields of every report on a project, lines 519, 567, 623
NotFoundReport(arguments) ==
    [project |-> Arg(arguments, "project_name", ""),
     language |-> Arg(arguments, "language", ""),
     found |-> FALSE]

\* lines 516-561
ContinueProjectInfo(t, arguments) ==
    IF ~FindProject(t, arguments).found THEN NotFoundReport(arguments)
    ELSE [project |-> Arg(arguments, "project_name", ""),
          language |-> FindProject(t, arguments).language,
          found |-> TRUE,
          path |-> FindProject(t, arguments).path,
          files |-> FileEntries(t, FindProject(t, arguments).path, FALSE),
          readme |-> ReadmeField(t, FindProject(t, arguments).path)]

\* lines 580-615: the report on a project whose entries are `structure`
AnalysisOf(arguments, found, structure) ==
    [project |-> Arg(arguments, "project_name", ""),
     language |-> found.language,
     found |-> TRUE,
     structure |-> structure,
     statistics |-> [total_files |-> Len(SelectSeq(structure, LAMBDA e : e.type = "file")),
                     total_dirs |-> Len(SelectSeq(structure,
                                                  LAMBDA e : e.type = "directory"))]]

\* lines 564-617
ContinueAnalysis(t, arguments) ==
    IF ~FindProject(t, arguments).found THEN NotFoundReport(arguments)
    ELSE AnalysisOf(arguments, FindProject(t, arguments),
                    FileEntries(t, FindProject(t, arguments).path, TRUE))

(***************************************************************************)
(* continue_full_compatible.py: the templates and str.format.  The long    *)
(* runs of fixed text of a template are cut down to a few characters; its  *)
(* braces are all kept.                                                    *)
(***************************************************************************)
ProjectReadmeTemplate ==
    <<"#", " ", "R", "E", "A", "D", "M", "E", " ", "{", "l", "a", "n", "g",
      "u", "a", "g", "e", "}", " ", "{", "f", "r", "a", "m", "e", "w", "o",
      "r", "k", "}", " ", "{", "d", "a", "t", "a", "b", "a", "s", "e", "}",
      " ", "{", "d", "e", "p", "e", "n", "d", "e", "n", "c", "i", "e", "s",
      "}", " ", "{", "i", "n", "s", "t", "a", "l", "l", "_", "c", "o", "m",
      "m", "a", "n", "d", "}", " ", "{", "r", "u", "n", "_", "c", "o", "m",
      "m", "a", "n", "d", "}", " ", "A", "P", "I", " ", "{", "l", "i", "c",
      "e", "n", "s", "e", "}">>
\* lines 311-349: the JSON samples of the template bring braces of their own
ApiDocTemplate ==
    <<"#", " ", "A", "P", "I", " ", "/", "a", "p", "i", "/", "{", "e", "n",
      "d", "p", "o", "i", "n", "t", "}", " ", "{", "\n", " ", "\"", "s", "t",
      "a", "t", "u", "s", "\"", ":", " ", "\"", "s", "u", "c", "c", "e", "s",
      "s", "\"", ",", " ", "\"", "d", "a", "t", "a", "\"", ":", " ", "{",
      "}", "\n", "}">>
ModuleDocTemplate ==
    <<"#", " ", "M", "o", "d", "u", "l", "e", " ", "m", "e", "t", "h", "o",
      "d", "1", "(", ")">>
CodingStandardsTemplate ==
    <<"#", " ", "C", "o", "d", "i", "n", "g", " ", "S", "t", "a", "n", "d",
      "a", "r", "d", "s">>
TemplateNotFound ==
    <<"T", "e", "m", "p", "l", "a", "t", "e", " ", "n", "o", "t", " ", "f",
      "o", "u", "n", "d", ":", " ">>

\* lines 281-410: templates.get(template_name, f"Template not found: ...")
TemplateText(template_name) ==
    CASE Concat(template_name) = "project-readme" -> ProjectReadmeTemplate
      [] Concat(template_name) = "api-doc" -> ApiDocTemplate
      [] Concat(template_name) = "module-doc" -> ModuleDocTemplate
      [] Concat(template_name) = "coding-standards" -> CodingStandardsTemplate
      [] OTHER -> TemplateNotFound \o template_name

\* the characters of the strings that are put into a template
Letterings == {<<"J", "a", "v", "a">>, <<"G", "o">>, <<"M", "I", "T">>,
               <<"e", "x", "a", "m", "p", "l", "e">>, <<>>}

CharsOf(string) ==
    IF \E cs \in Letterings : Concat(cs) = string
    THEN CHOOSE cs \in Letterings : Concat(cs) = string
    ELSE <<string>>

\* lines 780-789: the keyword arguments of the format call
FormatArgs(language) ==
    [language |-> CharsOf(language), framework |-> <<>>, database |-> <<>>,
     dependencies |-> <<>>, install_command |-> <<>>, run_command |-> <<>>,
     license |-> CharsOf("MIT"), endpoint |-> CharsOf("example")]

\* the first position of a character at or behind position i, 0 when none
Find(chars, c, i) ==
    IF \E k \in i..Len(chars) : chars[k] = c
    THEN CHOOSE k \in i..Len(chars) : chars[k] = c /\ \A j \in i..(k - 1) : chars[j] # c
    ELSE 0

\* the name of the replacement field whose text is `inside`: up to the
\* first ":" or "!"
FieldName(inside) ==
    Concat(SubSeq(inside, 1,
                  IF \E k \in DOMAIN inside : inside[k] \in {":", "!"}
                  THEN (CHOOSE k \in DOMAIN inside :
                            /\ inside[k] \in {":", "!"}
                            /\ \A j \in 1..(k - 1) : inside[j] \notin {":", "!"}) - 1
                  ELSE Len(inside)))

\* the first position at or behind i that holds a brace, Len(chars) + 1
\* when none
NextBrace(chars, i) ==
    IF \E k \in i..Len(chars) : chars[k] \in {"{", "}"}
    THEN CHOOSE k \in i..Len(chars) :
             /\ chars[k] \in {"{", "}"}
             /\ \A j \in i..(k - 1) : chars[j] \notin {"{", "}"}
    ELSE Len(chars) + 1

\* the text of the replacement field that opens at position i
FieldAt(chars, i) == SubSeq(chars, i + 1, Find(chars, "}", i + 1) - 1)

RECURSIVE Format(_, _, _, _)
\* str.format(**kwargs) from position i on: [exc, text]
Format(chars, kwargs, i, acc) ==
    CASE i > Len(chars) -> [exc |-> NoExc, text |-> acc]
      [] i <= Len(chars) /\ chars[i] \notin {"{", "}"} ->
           Format(chars, kwargs, NextBrace(chars, i),
                  acc \o SubSeq(chars, i, NextBrace(chars, i) - 1))
      [] i < Len(chars) /\ chars[i] = "{" /\ chars[i + 1] = "{" ->
           Format(chars, kwargs, i + 2, Append(acc, "{"))
      [] i < Len(chars) /\ chars[i] = "}" /\ chars[i + 1] = "}" ->
           Format(chars, kwargs, i + 2, Append(acc, "}"))
      [] i <= Len(chars) /\ chars[i] = "}" /\ (i = Len(chars) \/ chars[i + 1] # "}") ->
           [exc |-> Raise("ValueError", "Single '}' encountered in format string"),
            text |-> <<>>]
      [] OTHER ->
           IF Find(chars, "}", i + 1) = 0
           THEN [exc |-> Raise("ValueError", "expected '}' before end of string"),
                 text |-> <<>>]
           ELSE IF FieldName(FieldAt(chars, i)) \notin DOMAIN kwargs
           THEN [exc |-> Raise("KeyError", FieldName(FieldAt(chars, i))), text |-> <<>>]
           ELSE Format(chars, kwargs, Find(chars, "}", i + 1) + 1,
                       acc \o kwargs[FieldName(FieldAt(chars, i))])

UpperChar(c) ==
    IF \E i \in DOMAIN LowerLetters : LowerLetters[i] = c
    THEN UpperLetters[CHOOSE i \in DOMAIN LowerLetters : LowerLetters[i] = c]
    ELSE c

\* s.upper()
upper(chars) == [i \in DOMAIN chars |-> UpperChar(chars[i])]

(***************************************************************************)
(* continue_full_compatible.py: check_documentation_quality, lines 619-746 *)
(* Each check appends an entry to "checks" and adds its points to "score": *)
(* the two are separate statements of the code and separate operators here *)
(***************************************************************************)
max_score == 10

\* directory.glob(pattern): the matching children, in listing order
ApiDocs(t, project_dir) ==
    SelectSeq(iterdir(t, project_dir), LAMBDA n : MatchesWord(n, "api"))
    \o SelectSeq(iterdir(t, project_dir), LAMBDA n : MatchesWord(n, "API"))

DocFiles(t, project_dir) ==
    SelectSeq(iterdir(t, project_dir), LAMBDA n : MatchesExt(n, ".md"))

CodeExtensions == <<".py", ".java", ".gd", ".js", ".ts">>

RECURSIVE CodeFiles(_, _, _)
\* lines 706-708
CodeFiles(t, project_dir, exts) ==
    IF exts = <<>> THEN <<>>
    ELSE rglob(t, project_dir, Head(exts)) \o CodeFiles(t, project_dir, Tail(exts))

HasLayout(t, project_dir) ==
    \/ Exists(t, PathJoin(project_dir, "src"))
    \/ Exists(t, PathJoin(project_dir, "lib"))
    \/ Exists(t, PathJoin(project_dir, "app"))

\* lines 644-658
ReadmeCheck(t, project_dir) ==
    IF Exists(t, PathJoin(project_dir, "README.md"))
    THEN [type |-> "readme", status |-> "present",
          size |-> Len(t[PathJoin(project_dir, "README.md")].text), score |-> 3]
    ELSE [type |-> "readme", status |-> "missing", score |-> 0]

ReadmePoints(t, project_dir) ==
    IF Exists(t, PathJoin(project_dir, "README.md")) THEN 3 ELSE 0

\* lines 661-675
ApiCheck(t, project_dir) ==
    IF ApiDocs(t, project_dir) # <<>>
    THEN [type |-> "api_documentation", status |-> "present",
          files |-> ApiDocs(t, project_dir), score |-> 2]
    ELSE [type |-> "api_documentation", status |-> "missing", score |-> 0]

ApiPoints(t, project_dir) == IF ApiDocs(t, project_dir) # <<>> THEN 2 ELSE 0

\* lines 678-703
DocsCheck(t, project_dir) ==
    IF Len(DocFiles(t, project_dir)) >= 2
    THEN [type |-> "documentation_files", status |-> "good",
          count |-> Len(DocFiles(t, project_dir)),
          files |-> DocFiles(t, project_dir), score |-> 2]
    ELSE IF Len(DocFiles(t, project_dir)) = 1
    THEN [type |-> "documentation_files", status |-> "basic",
          count |-> Len(DocFiles(t, project_dir)),
          files |-> DocFiles(t, project_dir), score |-> 1]
    ELSE [type |-> "documentation_files", status |-> "missing", count |-> 0, score |-> 0]

DocsPoints(t, project_dir) ==
    IF Len(DocFiles(t, project_dir)) >= 2 THEN 2
    ELSE IF Len(DocFiles(t, project_dir)) = 1 THEN 1
    ELSE 0

\* lines 706-723
CodeCheck(t, project_dir) ==
    IF CodeFiles(t, project_dir, CodeExtensions) # <<>>
    THEN [type |-> "code_files", status |-> "present",
          count |-> Len(CodeFiles(t, project_dir, CodeExtensions)), score |-> 1]
    ELSE [type |-> "code_files", status |-> "missing", score |-> 0]

CodePoints(t, project_dir) ==
    IF CodeFiles(t, project_dir, CodeExtensions) # <<>> THEN 1 ELSE 0

\* lines 726-739
LayoutCheck(t, project_dir) ==
    IF HasLayout(t, project_dir)
    THEN [type |-> "project_structure", status |-> "good", score |-> 2]
    ELSE [type |-> "project_structure", status |-> "basic", score |-> 1]

\* a layout rule that adds 3 where its check says 2
LayoutPointsHigh(t, project_dir) == IF HasLayout(t, project_dir) THEN 3 ELSE 1

\* lines 732 and 739: what the layout rule adds to the score
LayoutPoints(t, project_dir) == IF HasLayout(t, project_dir) THEN 2 ELSE 1

\* lines 635-741: the report on a project that was found
QualityReport(t, project_name, found) ==
    [project |-> project_name,
     language |-> found.language,
     found |-> TRUE,
     checks |-> <<ReadmeCheck(t, found.path), ApiCheck(t, found.path),
                  DocsCheck(t, found.path), CodeCheck(t, found.path),
                  LayoutCheck(t, found.path)>>,
     score |-> 0 + ReadmePoints(t, found.path) + ApiPoints(t, found.path)
               + DocsPoints(t, found.path) + CodePoints(t, found.path)
               + LayoutPoints(t, found.path),
     max_score |-> max_score]

\* lines 620-746
ContinueQuality(t, arguments) ==
    IF ~FindProject(t, arguments).found THEN NotFoundReport(arguments)
    ELSE QualityReport(t, Arg(arguments, "project_name", ""), FindProject(t, arguments))

(***************************************************************************)
(* continue_full_compatible.py: create_documentation, lines 748-809.  The  *)
(* template argument is a sequence of characters; the messages of the      *)
(* code are rendered in English.                                           *)
(***************************************************************************)
RECURSIVE PathString(_)
\* str(path) of a path below mcp_root
PathString(path) ==
    IF path = <<>> THEN "D:/data/MCP/mcp-docs"
    ELSE PathString(SubSeq(path, 1, Len(path) - 1)) \o "/" \o path[Len(path)]

\* an argument that is a JSON number where the schema asks for a string:
\* it compares unequal to every string and has no string methods
NotText == <<"<number>">>

\* lines 769-776, for a template that is a string
DocName(template) ==
    CASE Concat(template) = "project-readme" -> "README.md"
      [] Concat(template) = "api-doc" -> "API.md"
      [] Concat(template) = "module-doc" -> "MODULE.md"
      [] OTHER -> Concat(upper(template)) \o ".md"

\* lines 753-759
CreateResult(arguments, created, message) ==
    [project |-> Arg(arguments, "project_name", ""),
     language |-> Arg(arguments, "language", ""),
     template |-> Arg(arguments, "template", <<>>),
     created |-> created,
     message |-> message]

\* lines 778-798: format, write, and the except clause around both
WriteDocument(t, arguments, doc_path, formatted) ==
    IF formatted.exc # NoExc
    THEN [exc |-> NoExc,
          result |-> CreateResult(arguments, FALSE, "create failed: " \o formatted.exc.msg),
          tree |-> t]
    ELSE IF WriteText(t, doc_path, formatted.text).exc # NoExc
    THEN [exc |-> NoExc,
          result |-> CreateResult(arguments, FALSE,
                                  "create failed: "
                                  \o WriteText(t, doc_path, formatted.text).exc.msg),
          tree |-> t]
    ELSE [exc |-> NoExc,
          result |-> CreateResult(arguments, TRUE, "created: " \o PathString(doc_path))
                     @@ [path |-> PathString(doc_path)],
          tree |-> WriteText(t, doc_path, formatted.text).tree]

\* lines 761-804: the loop breaks only on a language directory that holds
\* the project; without a break its else clause sets the message
CreateDocumentation(t, arguments) ==
    IF ~Exists(t, <<>>)
    THEN [exc |-> NoExc,
          result |-> CreateResult(arguments, FALSE, "root missing: " \o PathString(<<>>)),
          tree |-> t]
    ELSE IF ~(/\ Arg(arguments, "language", "") \in ChildNames(t, <<>>)
              /\ IsDir(t, <<Arg(arguments, "language", "")>>)
              /\ Exists(t, PathJoin(<<Arg(arguments, "language", "")>>,
                                    Arg(arguments, "project_name", ""))))
    THEN [exc |-> NoExc,
          result |-> CreateResult(arguments, FALSE,
                                  "language directory missing: "
                                  \o Arg(arguments, "language", "")),
          tree |-> t]
    ELSE IF Arg(arguments, "template", <<>>) = NotText
    THEN [exc |-> Raise("AttributeError", "'int' object has no attribute 'upper'"),
          result |-> CreateResult(arguments, FALSE, ""),
          tree |-> t]
    ELSE WriteDocument(t, arguments,
                       PathJoin(PathJoin(<<Arg(arguments, "language", "")>>,
                                         Arg(arguments, "project_name", "")),
                                DocName(Arg(arguments, "template", <<>>))),
                       Format(TemplateText(Arg(arguments, "template", <<>>)),
                              FormatArgs(Arg(arguments, "language", "")), 1, <<>>))

\* continue_full_compatible.py, lines 455-811: what the handler leaves: the
\* exception that left it, the content and the tree
ContinueCallTool(t, name, arguments) ==
    CASE name = "search_documentation" ->
           [exc |-> NoExc, content |-> <<JsonBlock(ContinueSearch(t, arguments))>>, tree |-> t]
      [] name = "list_projects" ->
           [exc |-> NoExc, content |-> <<JsonBlock(ContinueListProjects(t, arguments))>>,
            tree |-> t]
      [] name = "get_project_info" ->
           [exc |-> NoExc, content |-> <<JsonBlock(ContinueProjectInfo(t, arguments))>>,
            tree |-> t]
      [] name = "analyze_project_structure" ->
           [exc |-> NoExc, content |-> <<JsonBlock(ContinueAnalysis(t, arguments))>>,
            tree |-> t]
      [] name = "check_documentation_quality" ->
           [exc |-> NoExc, content |-> <<JsonBlock(ContinueQuality(t, arguments))>>,
            tree |-> t]
      [] name = "create_documentation" ->
           [exc |-> CreateDocumentation(t, arguments).exc,
            content |-> IF CreateDocumentation(t, arguments).exc = NoExc
                        THEN <<JsonBlock(CreateDocumentation(t, arguments).result)>>
                        ELSE <<>>,
            tree |-> CreateDocumentation(t, arguments).tree]
      [] OTHER ->
           [exc |-> NoExc, content |-> <<PlainBlock("Unknown tool: " \o name)>>, tree |-> t]

(***************************************************************************)
(* documentation_server.py: the REST search, lines 223-260 and 289-371.    *)
(* Its configuration is the one of the other servers.                      *)
(***************************************************************************)
\* line 258: the most hits the REST search returns
RestMaxResults == 50
\* line 345: context_size
ContextSize == 100
\* line 356: the length of a preview that holds no search term
RestPreviewLen == 200

\* content.find(term): the 0-based position of the first occurrence, or -1
find(content, term) ==
    IF \E i \in 0..(Len(content) - Len(term)) : SubSeq(content, i + 1, i + Len(term)) = term
    THEN CHOOSE i \in 0..(Len(content) - Len(term)) :
             /\ SubSeq(content, i + 1, i + Len(term)) = term
             /\ \A j \in 0..(i - 1) : SubSeq(content, j + 1, j + Len(term)) # term
    ELSE -1

Max(a, b) == IF a > b THEN a ELSE b
Min(a, b) == IF a < b THEN a ELSE b

\* lines 359-366: the context around position pos
Context(content, pos, search_term) ==
    (IF Max(0, pos - ContextSize) > 0 THEN Ellipsis ELSE <<>>)
    \o SubSeq(content, Max(0, pos - ContextSize) + 1,
              Min(Len(content), pos + Len(search_term) + ContextSize))
    \o (IF Min(Len(content), pos + Len(search_term) + ContextSize) < Len(content)
        THEN Ellipsis ELSE <<>>)

\* lines 345-371, for a file that can be read
_get_content_preview(content, search_term) ==
    IF find(lower(content), lower(search_term)) = -1
    THEN (IF Len(content) > RestPreviewLen
          THEN Slice(content, RestPreviewLen) \o Ellipsis
          ELSE content)
    ELSE Context(content, find(lower(content), lower(search_term)), search_term)

\* lines 296-317 and 321-341 for one file: the hit it adds, if any
RestFileHits(t, language, project, file_path, search_terms, type) ==
    IF ReadText(t, file_path).exc # NoExc THEN <<>>
    ELSE IF SumCounts(lower(ReadText(t, file_path).text), search_terms) > 0
    THEN <<[type |-> type,
            language |-> language,
            project |-> project,
            file |-> file_path[Len(file_path)],
            path |-> file_path,
            score |-> SumCounts(lower(ReadText(t, file_path).text), search_terms),
            preview |-> IF type = "markdown"
                        THEN _get_content_preview(ReadText(t, file_path).text,
                                                  search_terms[1])
                        ELSE <<"metadata file matched">>]>>
    ELSE <<>>

RECURSIVE RestScanFiles(_, _, _, _, _, _)
RestScanFiles(t, language, project, files, search_terms, type) ==
    IF files = <<>> THEN <<>>
    ELSE RestFileHits(t, language, project, Head(files), search_terms, type)
         \o RestScanFiles(t, language, project, Tail(files), search_terms, type)

\* lines 289-343: the markdown files, then the JSON files
_search_in_directory(t, directory, search_terms, language, project) ==
    RestScanFiles(t, language, project, rglob(t, directory, ".md"), search_terms,
                  "markdown")
    \o RestScanFiles(t, language, project, rglob(t, directory, ".json"), search_terms,
                     "metadata")

\* lines 243-251: one round of the loop over lang_dir.iterdir()
RestScanProject(t, lang_config, lang_dir, name, project, search_terms) ==
    IF ~IsDir(t, PathJoin(lang_dir, name)) THEN <<>>
    ELSE IF Given(project) /\ name # project THEN <<>>
    ELSE _search_in_directory(t, PathJoin(lang_dir, name), search_terms,
                              lang_config.name, name)

\* lines 242-251
RestScanProjects(t, lang_config, lang_dir, names, project, search_terms) ==
    Flatten([k \in DOMAIN names
               |-> RestScanProject(t, lang_config, lang_dir, names[k], project,
                                   search_terms)])

RECURSIVE RestScanLanguages(_, _, _, _, _)
\* lines 234-251
RestScanLanguages(t, configs, language, project, search_terms) ==
    IF configs = <<>> THEN <<>>
    ELSE (IF Given(language) /\ Head(configs).name # language THEN <<>>
          ELSE IF ~Exists(t, <<Head(configs).display_name>>) THEN <<>>
          ELSE RestScanProjects(t, Head(configs), <<Head(configs).display_name>>,
                                iterdir(t, <<Head(configs).display_name>>), project,
                                search_terms))
         \o RestScanLanguages(t, Tail(configs), language, project, search_terms)

\* lines 253-260
RestSearchResult(q, sorted) ==
    [query |-> q, results |-> Slice(sorted, RestMaxResults), total |-> Len(sorted)]

\* lines 223-260
search_documentation(t, q, language, project) ==
    RestSearchResult(q, SortByScore(RestScanLanguages(t, supported_languages, language,
                                                      project, split(lower(q)))))

(***************************************************************************)
(* The tools, the listing and the searches as a second state machine over  *)
(* the same variables: a caller hands one input to one entry point, the    *)
(* entry point runs to its end (create_documentation may write a file),    *)
(* and the caller takes the outcome.                                       *)
(***************************************************************************)
(***************************************************************************)
(* continue_full_compatible.py: the resource listing and the reader.       *)
(***************************************************************************)
TemplateScheme == "template://"
ProjectScheme == "project://"

\* lines 42-67: the four template resources
TemplateResources ==
    <<Resource(<<TemplateScheme, "project-readme">>, "text/markdown"),
      Resource(<<TemplateScheme, "api-doc">>, "text/markdown"),
      Resource(<<TemplateScheme, "module-doc">>, "text/markdown"),
      Resource(<<TemplateScheme, "coding-standards">>, "text/markdown")>>

\* lines 76-81
ContinueProjectResource(lang, project) ==
    Resource(<<ProjectScheme, lang, Slash, project>>, "application/json")

\* lines 72-82: one round of the loop over mcp_root.glob("*")
ContinueResourcesOfLanguage(t, lang) ==
    IF ~IsDir(t, <<lang>>) \/ lang = "templates" THEN <<>>
    ELSE Flatten([k \in DOMAIN iterdir(t, <<lang>>) |->
                    IF IsDir(t, <<lang, iterdir(t, <<lang>>)[k]>>)
                    THEN <<ContinueProjectResource(lang, iterdir(t, <<lang>>)[k])>>
                    ELSE <<>>])

\* handle_list_resources of continue_full_compatible.py
ContinueListResources(t) ==
    TemplateResources
    \o (IF ~Exists(t, <<>>) THEN <<>>
        ELSE Flatten([k \in DOMAIN iterdir(t, <<>>) |->
                        ContinueResourcesOfLanguage(t, iterdir(t, <<>>)[k])]))

ResourcePreviewLen == 200

\* line 444: content[:200] + "..." if len(content) > 200 else content
ResourcePreview(content) ==
    IF Len(content) > ResourcePreviewLen
    THEN Slice(content, ResourcePreviewLen) \o Ellipsis
    ELSE content

\* lines 438-449: the previews of the documents that can be read
ResourceDocumentation(t, project_path, files) ==
    Flatten([k \in DOMAIN files |->
               IF Suffix(files[k][Len(files[k])]) = ".md" /\ ReadText(t, files[k]).exc = NoExc
               THEN <<[file |-> RelativeTo(files[k], project_path),
                       preview |-> ResourcePreview(ReadText(t, files[k]).text)]>>
               ELSE <<>>])

\* line 451
ResourceNotFound(uri) ==
    Returned([plain |-> <<"Resource not found: ">> \o uri.chars])

\* handle_read_resource of continue_full_compatible.py, lines 276-451
ContinueReadResource(t, uri) ==
    IF uri.chars # <<>> /\ uri.chars[1] = TemplateScheme
    THEN Returned([plain |-> TemplateText(SelectSeq(uri.chars, LAMBDA c : c # TemplateScheme))])
    ELSE IF uri.chars # <<>> /\ uri.chars[1] = ProjectScheme
    THEN LET parts == Split(SelectSeq(uri.chars, LAMBDA c : c # ProjectScheme))
         IN IF Len(parts) = 2 /\ Exists(t, <<parts[1], parts[2]>>)
            THEN Returned(JsonDumps(
                     [language |-> parts[1],
                      project |-> parts[2],
                      path |-> <<parts[1], parts[2]>>,
                      files |-> FileEntries(t, <<parts[1], parts[2]>>, FALSE),
                      documentation |->
                          ResourceDocumentation(t, <<parts[1], parts[2]>>,
                              SelectSeq(rglob(t, <<parts[1], parts[2]>>, "*"),
                                        LAMBDA q : ~IsDir(t, q)))]))
            ELSE ResourceNotFound(uri)
    ELSE ResourceNotFound(uri)

\* the most documents create_documentation writes in one behaviour
MaxWrites == 1

ToolInit ==
    /\ session = NewSession
    /\ tree \in ToolTrees
    /\ exchange = Idle
    /\ updater = NoUpdater

\* the files that were written since the start
Written(t) ==
    {p \in DOMAIN t : \A t0 \in ToolTrees : p \notin DOMAIN t0 \/ t0[p] # t[p]}

EmptyDict == [k \in {} |-> None]

RECURSIVE DictsOver(_, _)
\* every dict whose keys are among `keys`, each key with one of its values
DictsOver(keys, values) ==
    IF keys = <<>> THEN {EmptyDict}
    ELSE DictsOver(Tail(keys), values)
         \cup {Put(d, Head(keys), v) : d \in DictsOver(Tail(keys), values),
                                       v \in values[Head(keys)]}

CacheQuery == <<"C", "a", "c", "h", "e", " ", "a">>
TwiceQuery == <<"a", "a">>
AbsentQuery == <<"z", "z">>
RepeatQuery == <<"a", " ", " ", "a">>
BlankQuery == <<" ">>
ApiQuery == <<"a", "p", "i">>
Queries == {<<>>, CacheQuery, TwiceQuery, AbsentQuery, RepeatQuery, BlankQuery, ApiQuery}

TemplateNames ==
    {<<"p", "r", "o", "j", "e", "c", "t", "-", "r", "e", "a", "d", "m", "e">>,
     <<"a", "p", "i", "-", "d", "o", "c">>,
     <<"m", "o", "d", "u", "l", "e", "-", "d", "o", "c">>,
     <<"b", "o", "g", "u", "s">>}

\* the inputSchema of each tool of mcp_protocol_server.py: the declared
\* properties and the required ones
ProtocolSchemas ==
    [search_documentation |->
         [properties |-> {"query", "language", "project"}, required |-> {"query"}],
     analyze_project_structure |->
         [properties |-> {"language", "project"}, required |-> {"language", "project"}],
     check_documentation_quality |->
         [properties |-> {"scope", "language", "project", "module"},
          required |-> {"scope"}]]

\* the inputSchema of each tool of continue_full_compatible.py
ContinueSchemas ==
    [search_documentation |->
         [properties |-> {"query", "language"}, required |-> {"query"}],
     list_projects |-> [properties |-> {"language"}, required |-> {}],
     get_project_info |->
         [properties |-> {"project_name", "language"}, required |-> {"project_name"}],
     analyze_project_structure |->
         [properties |-> {"project_name", "language"}, required |-> {"project_name"}],
     check_documentation_quality |->
         [properties |-> {"project_name", "language"}, required |-> {"project_name"}],
     create_documentation |->
         [properties |-> {"project_name", "language", "template"},
          required |-> {"project_name", "language", "template"}]]

ProtocolToolNames ==
    {"search_documentation", "analyze_project_structure", "check_documentation_quality",
     "nope"}

\* the argument dicts a caller sends to a tool of mcp_protocol_server.py:
\* with and without each declared field, with and without an undeclared one
ProtocolArguments(name) ==
    CASE name = "search_documentation" ->
           DictsOver(<<"query", "language", "project", "verbose">>,
                     [query |-> {CacheQuery, TwiceQuery, AbsentQuery},
                      language |-> {"java"}, project |-> {"demo"}, verbose |-> {TRUE}])
      [] name = "analyze_project_structure" ->
           DictsOver(<<"language", "project", "verbose">>,
                     [language |-> {"java", "go"}, project |-> {"demo", "project", "ghost"},
                      verbose |-> {TRUE}])
      [] name = "check_documentation_quality" ->
           DictsOver(<<"scope", "verbose">>,
                     [scope |-> {"all", "project"}, verbose |-> {TRUE}])
      [] OTHER -> DictsOver(<<"verbose">>, [verbose |-> {TRUE}])

ContinueToolNames ==
    {"search_documentation", "list_projects", "get_project_info",
     "analyze_project_structure", "check_documentation_quality", "create_documentation",
     "nope"}

\* the argument dicts a caller sends to a tool of continue_full_compatible.py
ContinueArguments(name) ==
    CASE name = "search_documentation" ->
           DictsOver(<<"query", "language", "verbose">>,
                     [query |-> {CacheQuery, TwiceQuery, AbsentQuery},
                      language |-> {"Java", "Go"}, verbose |-> {TRUE}])
      [] name = "list_projects" ->
           DictsOver(<<"language", "verbose">>,
                     [language |-> {"Java", "Go"}, verbose |-> {TRUE}])
      [] name \in {"get_project_info", "analyze_project_structure"} ->
           DictsOver(<<"project_name", "language", "verbose">>,
                     [project_name |-> {"demo", "ghost"}, language |-> {"Java", "Go"},
                      verbose |-> {TRUE}])
      [] name = "check_documentation_quality" ->
           DictsOver(<<"project_name", "language", "verbose">>,
                     [project_name |-> {"demo", "ghost"}, language |-> {"Java", "Go"},
                      verbose |-> {TRUE}])
           \cup {[project_name |-> RubricName(S)] : S \in SUBSET RubricEntries}
      [] name = "create_documentation" ->
           DictsOver(<<"project_name", "language", "template", "verbose">>,
                     [project_name |-> {"demo", "tools", "ghost"},
                      language |-> {"Java", "Go"}, template |-> TemplateNames \cup {NotText},
                      verbose |-> {TRUE}])
      [] OTHER -> DictsOver(<<"verbose">>, [verbose |-> {TRUE}])

\* the names the listing composes URIs from: a configured language name is
\* any string, the name of a directory is never empty
LanguageNames == {"", "java", "mcp-docs:", "module"}
DirectoryNames == {"demo", "mcp-docs:", "readme", "project"}

\* handle_list_resources on the tree
ListResources ==
    /\ exchange.phase = "idle"
    /\ exchange' = [phase |-> "listed", server |-> "protocol",
                    resources |-> handle_list_resources(tree)]
    /\ UNCHANGED <<session, tree, updater>>

\* the f-string of line 76 or 86, on a language and a project directory
ComposeProject ==
    /\ exchange.phase = "idle"
    /\ \E language \in LanguageNames, project \in DirectoryNames :
         \E type \in {"project", "readme"} :
           exchange' = [phase |-> "composed", type |-> type,
                        segs |-> <<language, project>>,
                        resource |-> IF type = "project"
                                     THEN ProjectResource(language, project)
                                     ELSE ReadmeResource(language, project)]
    /\ UNCHANGED <<session, tree, updater>>

\* the f-string of line 97, on a language, a project and a module directory
ComposeModule ==
    /\ exchange.phase = "idle"
    /\ \E language \in LanguageNames, project \in DirectoryNames,
          module \in DirectoryNames :
         exchange' = [phase |-> "composed", type |-> "module",
                      segs |-> <<language, project, module>>,
                      resource |-> ModuleResource(language, project, module)]
    /\ UNCHANGED <<session, tree, updater>>

\* the state after a tool call that left `outcome`
Called(server, name, arguments, outcome) ==
    /\ exchange' = [phase |-> "called", server |-> server, name |-> name,
                    arguments |-> arguments, before |-> tree, outcome |-> outcome]
    /\ tree' = outcome.tree
    /\ UNCHANGED <<session, updater>>

\* handle_call_tool of mcp_protocol_server.py
ProtocolCall ==
    /\ exchange.phase = "idle"
    /\ \E name \in ProtocolToolNames :
         \E arguments \in ProtocolArguments(name) :
           Called("protocol", name, arguments, ProtocolCallTool(tree, name, arguments))

\* handle_call_tool of continue_full_compatible.py, a tool that only reads
ContinueCall ==
    /\ exchange.phase = "idle"
    /\ \E name \in ContinueToolNames \ {"create_documentation"} :
         \E arguments \in ContinueArguments(name) :
           Called("continue", name, arguments, ContinueCallTool(tree, name, arguments))

\* handle_call_tool of continue_full_compatible.py, create_documentation
ContinueCreate ==
    /\ exchange.phase = "idle"
    /\ Cardinality(Written(tree)) < MaxWrites
    /\ \E arguments \in ContinueArguments("create_documentation") :
         Called("continue", "create_documentation", arguments,
                ContinueCallTool(tree, "create_documentation", arguments))

\* GET /search of http_server.py, lines 260-267
GatewaySearch ==
    /\ exchange.phase = "idle"
    /\ \E q \in Queries, language \in {None, "java", "go"}, project \in {None, "demo"} :
         exchange' = [phase |-> "searched", server |-> "gateway", q |-> q,
                      language |-> language, project |-> project,
                      result |-> _search_documentation(tree, q, language, project)]
    /\ UNCHANGED <<session, tree, updater>>

\* GET /search of documentation_server.py, lines 223-260
RestSearch ==
    /\ exchange.phase = "idle"
    /\ \E q \in Queries, language \in {None, "java", "go"}, project \in {None, "demo"} :
         exchange' = [phase |-> "searched", server |-> "rest", q |-> q,
                      language |-> language, project |-> project,
                      result |-> search_documentation(tree, q, language, project)]
    /\ UNCHANGED <<session, tree, updater>>

\* handle_list_resources of continue_full_compatible.py on the tree
ContinueList ==
    /\ exchange.phase = "idle"
    /\ exchange' = [phase |-> "listed", server |-> "continue",
                    resources |-> ContinueListResources(tree)]
    /\ UNCHANGED <<session, tree, updater>>

\* the state after the reader of `server` was given a listed URI
Read(server, result) ==
    /\ exchange' = [phase |-> "read", server |-> server, uri |-> result.uri,
                    listed |-> exchange.resources, result |-> result.read]
    /\ UNCHANGED <<session, tree, updater>>

\* a client reads one of the resources the listing returned, from the server
\* that listed it
ReadListed ==
    /\ exchange.phase = "listed"
    /\ \E i \in DOMAIN exchange.resources :
         LET uri == exchange.resources[i].uri
         IN IF exchange.server = "continue"
            THEN Read("continue", [uri |-> uri, read |-> ContinueReadResource(tree, uri)])
            ELSE Read("protocol", [uri |-> uri, read |-> handle_read_resource(tree, uri)])

\* the caller takes the outcome
Finish ==
    /\ exchange.phase \in {"listed", "read", "composed", "called", "searched"}
    /\ exchange' = Idle
    /\ UNCHANGED <<session, tree, updater>>

ToolNext ==
    \/ ListResources \/ ComposeProject \/ ComposeModule \/ ProtocolCall \/ ContinueCall
    \/ ContinueCreate \/ GatewaySearch \/ RestSearch \/ ContinueList \/ ReadListed
    \/ Finish

ToolSpec == ToolInit /\ [][ToolNext]_vars

(***************************************************************************)
(* scripts/mcp-auto-update.py: MCPAutoUpdater, the monitor that scans the  *)
(* tree for changed metadata and stamps what it found.  A watched file     *)
(* holds a JSON document: its top-level keys, the time stamp its metadata  *)
(* carry, and the revision its last editor gave it.                        *)
(***************************************************************************)
\* the most monitoring cycles of one behaviour
MaxCycles == 4
\* the most changes made from outside in one behaviour
MaxEdits == 2

JsonDoc(keys, stamp, rev) == [keys |-> keys, stamp |-> stamp, rev |-> rev]

ProjectInfoDoc == JsonDoc({"project_metadata", "mcp_metadata", "modules"}, 0, 0)
MetadataDoc == JsonDoc({"module_metadata", "mcp_metadata"}, 0, 0)
KeylessDoc == JsonDoc({"name"}, 0, 0)

\* one project with a stamped module, a module without the metadata keys,
\* a directory that is no module and a hidden directory
WatchedTree ==
    (<<>> :> Dir) @@ (<<"java">> :> Dir) @@ (<<"java", "demo">> :> Dir)
    @@ (<<"java", "demo", "project-info.json">> :> File(ProjectInfoDoc))
    @@ (<<"java", "demo", "core">> :> Dir)
    @@ (<<"java", "demo", "core", "metadata.json">> :> File(MetadataDoc))
    @@ (<<"java", "demo", "plain">> :> Dir)
    @@ (<<"java", "demo", "plain", "metadata.json">> :> File(KeylessDoc))
    @@ (<<"java", "demo", "docs">> :> Dir)
    @@ (<<"java", "demo", ".git">> :> Dir)
    @@ (<<"java", "demo", ".git", "metadata.json">> :> File(MetadataDoc))

\* a project whose directory has the name of a language
NamesakeTree ==
    (<<>> :> Dir) @@ (<<"java">> :> Dir) @@ (<<"java", "java">> :> Dir)
    @@ (<<"java", "java", "project-info.json">> :> File(ProjectInfoDoc))

\* documents that hold none of the keys update_timestamps writes
KeylessTree ==
    (<<>> :> Dir) @@ (<<"java">> :> Dir) @@ (<<"java", "demo">> :> Dir)
    @@ (<<"java", "demo", "project-info.json">> :> File(KeylessDoc))
    @@ (<<"java", "demo", "plain">> :> Dir)
    @@ (<<"java", "demo", "plain", "metadata.json">> :> File(KeylessDoc))

\* a metadata file the monitor may not open
LockedTree ==
    (<<>> :> Dir) @@ (<<"java">> :> Dir) @@ (<<"java", "demo">> :> Dir)
    @@ (<<"java", "demo", "core">> :> Dir)
    @@ (<<"java", "demo", "core", "metadata.json">> :> DeniedFile)

\* the language directory is spelled as the display name: nothing is watched
UnwatchedTree ==
    (<<>> :> Dir) @@ (<<"Java">> :> Dir) @@ (<<"Java", "demo">> :> Dir)
    @@ (<<"Java", "demo", "project-info.json">> :> File(ProjectInfoDoc))

MonitorTrees == {WatchedTree, NamesakeTree, KeylessTree, LockedTree, UnwatchedTree}

\* _get_supported_languages, lines 49-54
languages == {supported_languages[i].name : i \in DOMAIN supported_languages}

NoHash == [empty |-> TRUE, digest |-> JsonDoc({}, 0, 0)]

\* _calculate_file_hash, lines 56-63: the digest of the bytes, "" when the
\* file cannot be opened
_calculate_file_hash(t, file_path) ==
    IF t[file_path].kind = "file" /\ t[file_path].enc # "denied"
    THEN [empty |-> FALSE, digest |-> t[file_path].text]
    ELSE NoHash

\* name.startswith('.')
Hidden(name) == name \in {".git"}

\* lines 70-82, 97-102: the project-info.json and metadata.json files a
\* scan looks at
Watched(t) ==
    {f \in DOMAIN t :
        /\ Len(f) \in {3, 4}
        /\ f[1] \in languages
        /\ IsDir(t, SubSeq(f, 1, Len(f) - 1))
        /\ f[Len(f)] = (IF Len(f) = 3 THEN "project-info.json" ELSE "metadata.json")
        /\ Len(f) = 4 => ~Hidden(f[3])}

\* self.file_hashes.get(str(path), "")
old_hash(file_hashes, f) == IF f \in DOMAIN file_hashes THEN file_hashes[f] ELSE NoHash

Parent(f) == SubSeq(f, 1, Len(f) - 1)

\* Path.name
Name(f) == IF f = <<>> THEN "" ELSE f[Len(f)]

\* scan_for_changes, lines 65-114: [changes, file_hashes]
scan_for_changes(t, file_hashes) ==
    [changes |->
         [added |-> {Parent(f) : f \in {g \in Watched(t) : old_hash(file_hashes, g).empty}},
          modified |->
              {Parent(f) : f \in {g \in Watched(t) :
                                     /\ ~old_hash(file_hashes, g).empty
                                     /\ _calculate_file_hash(t, g) # old_hash(file_hashes, g)}},
          deleted |-> {}],
     file_hashes |->
         [f \in DOMAIN file_hashes \cup Watched(t) |->
             IF f \in Watched(t) THEN _calculate_file_hash(t, f) ELSE file_hashes[f]]]

\* lines 126-139, 142-156: the document is loaded, its two metadata entries
\* are given the time of the call, and it is written back; any failure is
\* logged and leaves the file as it is
Stamped(t, f, key, current_time) ==
    IF /\ f \in DOMAIN t
       /\ t[f].kind = "file"
       /\ t[f].enc = "utf-8"
       /\ {key, "mcp_metadata"} \subseteq t[f].text.keys
    THEN File([t[f].text EXCEPT !.stamp = current_time])
    ELSE t[f]

\* line 124: path_obj.name in self.languages or "project-info.json" in path
IsProjectLevel(path) ==
    Name(path) \in languages \/ \E k \in DOMAIN path : path[k] = "project-info.json"

\* update_timestamps, lines 116-156: the tree it leaves
update_timestamps(t, paths, current_time) ==
    [f \in DOMAIN t |->
        IF Name(f) = "project-info.json" /\ Parent(f) \in paths /\ IsProjectLevel(Parent(f))
        THEN Stamped(t, f, "project_metadata", current_time)
        ELSE IF Name(f) = "metadata.json" /\ Parent(f) \in paths
        THEN Stamped(t, f, "module_metadata", current_time)
        ELSE t[f]]

\* lines 281-284: the dependency graph written below mcp_root
GraphDoc(current_time) == JsonDoc({"nodes", "edges", "generated_at"}, current_time, 0)

\* run_monitoring_cycle, lines 266-296: [changes, file_hashes, tree]
run_monitoring_cycle(t, file_hashes, current_time) ==
    LET scan == scan_for_changes(t, file_hashes)
    IN [changes |-> scan.changes,
        file_hashes |-> scan.file_hashes,
        tree |-> IF scan.changes.modified \cup scan.changes.added # {}
                 THEN Put(update_timestamps(t, scan.changes.modified \cup scan.changes.added,
                                            current_time),
                          <<"dependency-graph.json">>, File(GraphDoc(current_time)))
                 ELSE t]

NoChanges == [added |-> {}, modified |-> {}, deleted |-> {}]

\* MCPAutoUpdater.__init__, lines 34-38, before the first cycle
MonitorInit ==
    /\ session = NewSession
    /\ tree \in MonitorTrees
    /\ updater = [file_hashes |-> <<>>, now |-> 0]
    /\ exchange = [phase |-> "started", changes |-> NoChanges, quiet |-> FALSE,
                   touched |-> FALSE, edits |-> 0]

\* one round of run_continuous_monitoring, lines 298-311: the clock has
\* moved on since the last cycle.  quiet: a cycle came before this one and
\* nothing was changed from outside since
MonitoringCycle ==
    /\ updater.now < MaxCycles
    /\ LET cycle == run_monitoring_cycle(tree, updater.file_hashes, updater.now + 1)
       IN /\ tree' = cycle.tree
          /\ updater' = [file_hashes |-> cycle.file_hashes, now |-> updater.now + 1]
          /\ exchange' = [phase |-> "cycled", changes |-> cycle.changes,
                          quiet |-> exchange.phase = "cycled" /\ ~exchange.touched,
                          touched |-> FALSE, edits |-> exchange.edits]
    /\ UNCHANGED session

\* the state after a change made from outside the monitor
Touched(t) ==
    /\ tree' = t
    /\ exchange' = [exchange EXCEPT !.touched = TRUE, !.edits = @ + 1]
    /\ UNCHANGED <<session, updater>>

\* an editor saves a new revision of a watched document
ExternalEdit ==
    /\ exchange.edits < MaxEdits
    /\ \E f \in Watched(tree) :
         /\ tree[f].enc = "utf-8"
         /\ Touched([tree EXCEPT ![f] = File([tree[f].text EXCEPT !.rev = @ + 1])])

\* a module with its metadata is added to a project
ExternalAdd ==
    /\ exchange.edits < MaxEdits
    /\ \E project_dir \in {d \in DOMAIN tree : Len(d) = 2 /\ IsDir(tree, d)} :
         /\ Append(project_dir, "extra") \notin DOMAIN tree
         /\ Touched(Put(Put(tree, Append(project_dir, "extra"), Dir),
                        Append(Append(project_dir, "extra"), "metadata.json"),
                        File(MetadataDoc)))

MonitorNext == MonitoringCycle \/ ExternalEdit \/ ExternalAdd

MonitorSpec == MonitorInit /\ [][MonitorNext]_vars

(***************************************************************************)
(* Vocabulary of the properties.                                           *)
(***************************************************************************)
HasReply == exchange.phase = "replied"
Items == exchange.body.items
Responses == exchange.reply.responses
\* the positions of a reply that answer a posted JSON value
Answers == DOMAIN Items \cap DOMAIN Responses

IsObject(payload) == payload.k = "object"
WellFormed(payload) == IsObject(payload) /\ Get(payload.jsonrpc) = "2.0"
IsError(response, code) ==
    /\ "error" \in DOMAIN response
    /\ "result" \notin DOMAIN response
    /\ response.error.code = code

\* the states app.state.session can take
SessionStates ==
    {NewSession}
    \cup {[initialized |-> TRUE, protocolVersion |-> v] : v \in {None, "2024-11-05", "2025-03-26"}}

(***************************************************************************)
(* C1: every response envelope the dispatcher produces holds exactly one   *)
(* of the keys result and error, never both and never neither.             *)
(***************************************************************************)
C1_ResultXorError ==
    HasReply =>
        \A i \in DOMAIN Responses :
            ("result" \in DOMAIN Responses[i]) # ("error" \in DOMAIN Responses[i])

\* a batch answered with a result for one element and an error for another
C1_Witness ==
    /\ HasReply
    /\ exchange.body.k = "list"
    /\ \E i, j \in DOMAIN Responses :
          /\ "result" \in DOMAIN Responses[i]
          /\ IsError(Responses[j], -32601)

(***************************************************************************)
(* C2: a malformed envelope (a tag other than "2.0", or a JSON value that  *)
(* is no object, alone or as a batch element) is answered with an error    *)
(* of code -32600, no method handler runs, and a malformed envelope sent   *)
(* alone leaves the session unchanged.                                     *)
(***************************************************************************)
C2_MalformedIsInvalidRequest ==
    HasReply =>
        /\ \A i \in DOMAIN Items :
              ~WellFormed(Items[i]) =>
                  /\ i \in DOMAIN Responses
                  /\ IsError(Responses[i], -32600)
                  /\ ~exchange.handlers[i]
        /\ (exchange.body.k = "single" /\ ~WellFormed(Items[1])) => session = exchange.before

(***************************************************************************)
(* C3: batch isolation: whatever the other elements of a batch are         *)
(* (failing handlers, unknown methods, malformed elements), every object   *)
(* element of the batch is answered, at its position, with the response    *)
(* it gets when it is posted alone.                                        *)
(***************************************************************************)
C3_BatchIsolation ==
    (HasReply /\ exchange.body.k = "list") =>
        \A i \in DOMAIN Items :
            IsObject(Items[i]) =>
                /\ i \in DOMAIN Responses
                /\ root_post(Single(Items[i]), exchange.before, tree).reply
                       = JSONResponse("object", <<Responses[i]>>)

(***************************************************************************)
(* C4: a failure raised inside a method handler is reported as an error    *)
(* of code -32000 that carries the failure's message, and no exception     *)
(* leaves _handle_json_rpc (the endpoint never answers 500).               *)
(***************************************************************************)
C4_HandlerFailureIsInternalError ==
    HasReply =>
        /\ exchange.reply # ServerError
        /\ \A i \in Answers :
              (exchange.handlers[i] /\ TryBlock(Items[i], exchange.before, tree).exc # NoExc) =>
                  /\ IsError(Responses[i], -32000)
                  /\ Responses[i].error.message
                         = TryBlock(Items[i], exchange.before, tree).exc.msg

(***************************************************************************)
(* C5: the session starts Uninitialized; only initialize changes it;       *)
(* after a well-formed initialize request initialized is true and          *)
(* protocolVersion is the request's protocolVersion parameter, or          *)
(* "2024-11-05" when the request has none; an Initialized session stays    *)
(* Initialized.                                                            *)
(***************************************************************************)
\* the protocolVersion parameter of a request, None when it has none
RequestedVersion(payload) ==
    IF ParamsOrEmpty(payload.params).k = "object"
    THEN ParamsOrEmpty(payload.params).protocolVersion
    ELSE Absent

IsInitialize(payload) == WellFormed(payload) /\ Get(payload.method) = "initialize"

C5_SessionMachine ==
    /\ (~session.initialized) => session = NewSession
    /\ HasReply =>
          /\ exchange.before.initialized => session.initialized
          /\ (\A i \in DOMAIN Items : ~IsInitialize(Items[i])) => session = exchange.before
          /\ (exchange.body.k = "single" /\ IsInitialize(Items[1])) =>
                 /\ session.initialized
                 /\ session.protocolVersion
                        = GetDefault(RequestedVersion(Items[1]), "2024-11-05")

(***************************************************************************)
(* C6: every response of POST / carries the id of the request it answers   *)
(* (null when the request has none), and a batch of n elements is          *)
(* answered with an array of exactly n responses, the i-th carrying the    *)
(* i-th element's id.                                                      *)
(***************************************************************************)
\* the id of a posted JSON value, None when it has none
IdOf(payload) == IF IsObject(payload) THEN Get(payload.id) ELSE None

C6_IdEcho ==
    HasReply =>
        /\ \A i \in Answers : Responses[i].id = IdOf(Items[i])
        /\ exchange.body.k = "unparseable" => Responses[1].id = None
        /\ exchange.body.k = "list" =>
              /\ exchange.reply.json = "array"
              /\ Len(Responses) = Len(Items)

(***************************************************************************)
(* C7: a well-formed envelope whose method is not in the dispatch table    *)
(* is answered with an error of code -32601 and no result, in either       *)
(* session state.                                                          *)
(***************************************************************************)
DispatchTable ==
    {"initialize", "listTools", "tools/list", "listResources", "resources/list",
     "readResource", "resources/read", "callTool", "prompts/list",
     "notifications/initialized"}

C7_UnknownMethodNotFound ==
    HasReply =>
        \A i \in Answers :
            (WellFormed(Items[i]) /\ Get(Items[i].method) \notin DispatchTable) =>
                IsError(Responses[i], -32601)

(***************************************************************************)
(* C8: a request whose method is not initialize gets the same response in  *)
(* every session state, Uninitialized or Initialized, on the same tree.    *)
(***************************************************************************)
C8_SameInEitherState ==
    HasReply =>
        \A i \in Answers :
            (IsObject(Items[i]) /\ Get(Items[i].method) # "initialize") =>
                \A s \in SessionStates :
                    _handle_json_rpc(Items[i], s, tree).response = Responses[i]

\* a resource read answered with its contents by an Initialized session
C8_Witness ==
    /\ HasReply
    /\ exchange.before.initialized
    /\ exchange.body.k = "single"
    /\ WellFormed(Items[1])
    /\ Get(Items[1].method) = "resources/read"
    /\ Responses # <<>>
    /\ "result" \in DOMAIN Responses[1]

(***************************************************************************)
(* C9: a resource read whose URI has fewer segments than its type needs    *)
(* (2 after project/ or readme/, 3 after module/) fails with code -32602.  *)
(***************************************************************************)
\* the URI a read request names, when it names a mcp-docs:// string
ReadsUri(payload) ==
    /\ WellFormed(payload)
    /\ Get(payload.method) \in ReadMethods
    /\ ParamsOrEmpty(payload.params).k = "object"
    /\ ParamsOrEmpty(payload.params).uri.k = "string"
    /\ StartsWithScheme(ParamsOrEmpty(payload.params).uri.chars)

\* the components of the URI after the scheme: the type tag, then the segments
ComponentsOf(payload) == Split(StripPrefix(ParamsOrEmpty(payload.params).uri.chars))

\* the number of segments the URI's type takes, 0 for an unknown type
SegmentsOfType(type) ==
    CASE type \in {"project", "readme"} -> 2
      [] type = "module" -> 3
      [] OTHER -> 0

KnownType(payload) == ComponentsOf(payload)[1] \in {"project", "readme", "module"}

TooFew(payload) ==
    /\ ReadsUri(payload)
    /\ KnownType(payload)
    /\ Len(ComponentsOf(payload)) - 1 < SegmentsOfType(ComponentsOf(payload)[1])

TooMany(payload) ==
    /\ ReadsUri(payload)
    /\ KnownType(payload)
    /\ Len(ComponentsOf(payload)) - 1 > SegmentsOfType(ComponentsOf(payload)[1])

C9_TooFewSegmentsInvalidParams ==
    HasReply =>
        \A i \in Answers : TooFew(Items[i]) => IsError(Responses[i], -32602)

(***************************************************************************)
(* C10: a resource URI with more segments than its type allows is          *)
(* rejected: the read is answered with an error and returns no content,    *)
(* by the HTTP gateway and by the STDIO server's reader alike.             *)
(***************************************************************************)
C10_TooManySegmentsRejected ==
    HasReply =>
        \A i \in Answers :
            TooMany(Items[i]) =>
                /\ "error" \in DOMAIN Responses[i]
                /\ "result" \notin DOMAIN Responses[i]
                /\ handle_read_resource(tree, ParamsOrEmpty(Items[i].params).uri).exc # NoExc

ExactSegments(payload) ==
    /\ ReadsUri(payload)
    /\ KnownType(payload)
    /\ Len(ComponentsOf(payload)) - 1 = SegmentsOfType(ComponentsOf(payload)[1])
    /\ \A k \in DOMAIN ComponentsOf(payload) : ComponentsOf(payload)[k] # ""

\* the directory or file the URI's locator stands for
TargetOf(c) ==
    CASE c[1] = "project" -> _get_project_path(c[2], c[3]).path
      [] c[1] = "readme" -> PathJoin(_get_project_path(c[2], c[3]).path, "README.md")
      [] c[1] = "module" -> PathJoin(_get_project_path(c[2], c[3]).path, c[4])

MissingOnDisk(payload, t) ==
    /\ ExactSegments(payload)
    /\ \/ ~_get_project_path(ComponentsOf(payload)[2], ComponentsOf(payload)[3]).found
       \/ ~Exists(t, TargetOf(ComponentsOf(payload)))

C12_MissingIsNotFound ==
    HasReply =>
        \A i \in Answers :
            MissingOnDisk(Items[i], tree) =>
                /\ "error" \in DOMAIN Responses[i]
                /\ "result" \notin DOMAIN Responses[i]
                /\ Responses[i].error.code # -32000

(***************************************************************************)
(* C13: a tool invoked without a field its input schema lists as required  *)
(* fails as an invalid-parameters error: the call ends in a failure and    *)
(* returns no content, and the tool does not run on a default value.       *)
(***************************************************************************)
SchemaOf(server, name) ==
    IF server = "protocol" THEN ProtocolSchemas[name] ELSE ContinueSchemas[name]

HasSchema(server, name) ==
    name \in DOMAIN (IF server = "protocol" THEN ProtocolSchemas ELSE ContinueSchemas)

MissingRequired ==
    /\ exchange.phase = "called"
    /\ HasSchema(exchange.server, exchange.name)
    /\ SchemaOf(exchange.server, exchange.name).required \ DOMAIN exchange.arguments # {}

C13_MissingRequiredIsInvalidParams ==
    MissingRequired =>
        /\ exchange.outcome.exc # NoExc
        /\ exchange.outcome.content = <<>>

(***************************************************************************)
(* C14: argument fields a tool's input schema does not declare are         *)
(* ignored: the invocation gives the same result as the same invocation    *)
(* without them, and they never cause an error.                            *)
(***************************************************************************)
Declared(server, name, arguments) ==
    [k \in DOMAIN arguments \cap SchemaOf(server, name).properties |-> arguments[k]]

WithoutExtras(server, t, name, arguments) ==
    IF server = "protocol"
    THEN ProtocolCallTool(t, name, Declared(server, name, arguments))
    ELSE ContinueCallTool(t, name, Declared(server, name, arguments))

HasExtras ==
    /\ exchange.phase = "called"
    /\ HasSchema(exchange.server, exchange.name)
    /\ DOMAIN exchange.arguments \ SchemaOf(exchange.server, exchange.name).properties # {}

C14_ExtrasIgnored ==
    HasExtras =>
        exchange.outcome = WithoutExtras(exchange.server, exchange.before, exchange.name,
                                         exchange.arguments)

(***************************************************************************)
(* C15: every tool invocation, successful, failed inside the tool or       *)
(* naming an unknown tool, returns a list of exactly one text block whose  *)
(* text is a JSON-serialized payload.                                      *)
(***************************************************************************)
IsJsonText(block) == block.type = "text" /\ "dumps" \in DOMAIN block.text

C15_OneJsonBlock ==
    exchange.phase = "called" =>
        /\ exchange.outcome.exc = NoExc
        /\ Len(exchange.outcome.content) = 1
        /\ IsJsonText(exchange.outcome.content[1])

(***************************************************************************)
(* C16: create_documentation never raises.  When it does not create the    *)
(* file it returns a payload with created false and a non-empty message    *)
(* and leaves the tree as it was; it returns created true only when the    *)
(* document was written, at the path the payload names.                    *)
(***************************************************************************)
CreateCalled ==
    /\ exchange.phase = "called"
    /\ exchange.server = "continue"
    /\ exchange.name = "create_documentation"

CreatePayload == exchange.outcome.content[1].text.dumps

C16_CreateNeverRaises ==
    CreateCalled =>
        /\ exchange.outcome.exc = NoExc
        /\ Len(exchange.outcome.content) = 1
        /\ IsJsonText(exchange.outcome.content[1])
        /\ CreatePayload.created = FALSE =>
               /\ CreatePayload.message # ""
               /\ exchange.outcome.tree = exchange.before
        /\ CreatePayload.created = TRUE =>
               \E p \in DOMAIN exchange.outcome.tree :
                   /\ PathString(p) = CreatePayload.path
                   /\ exchange.outcome.tree[p].kind = "file"
                   /\ \A q \in DOMAIN exchange.before :
                          q # p => /\ q \in DOMAIN exchange.outcome.tree
                                   /\ exchange.outcome.tree[q] = exchange.before[q]
                   /\ DOMAIN exchange.outcome.tree = DOMAIN exchange.before \cup {p}

(***************************************************************************)
(* C17: the query is lowercased and split on whitespace into terms,        *)
(* duplicates kept.  The score of a documentation file in scope is the     *)
(* sum over the terms of the number of occurrences of the term in the      *)
(* lowercased content; a file is a hit if and only if its score is         *)
(* positive; the total is the number of hits, so a query with no term, or  *)
(* whose terms occur nowhere, returns total 0 and an empty list.           *)
(***************************************************************************)
\* the positions where term stands in content
MatchAt(content, term) ==
    {i \in 1..(Len(content) - Len(term) + 1) : SubSeq(content, i, i + Len(term) - 1) = term}

Disjoint(S, n) == \A i \in S, j \in S : i < j => j - i >= n

\* the most occurrences of a term of length n that do not overlap
MostDisjoint(M, n) ==
    CHOOSE k \in 0..Cardinality(M) :
        /\ \E S \in SUBSET M : Cardinality(S) = k /\ Disjoint(S, n)
        /\ \A S \in SUBSET M : Disjoint(S, n) => Cardinality(S) <= k

Occurrences(content, term) == MostDisjoint(MatchAt(content, term), Len(term))

TermScore(content, terms) ==
    Sum([k \in DOMAIN terms |-> Occurrences(content, terms[k])])

\* the files a search looks at: those with one of the extensions below a
\* project directory of a configured language, within the filters given
Scope(t, language, project, exts) ==
    {p \in DOMAIN t :
        /\ Len(p) >= 3
        /\ \E k \in DOMAIN supported_languages :
               /\ supported_languages[k].display_name = p[1]
               /\ Given(language) => supported_languages[k].name = language
        /\ IsDir(t, <<p[1], p[2]>>)
        /\ Given(project) => p[2] = project
        /\ \E e \in exts : MatchesExt(p[Len(p)], e)}

\* the score of every file in scope, 0 for one that cannot be read
ScoresOf(t, scope, terms) ==
    [p \in scope |-> IF ReadText(t, p).exc # NoExc THEN 0
                     ELSE TermScore(lower(ReadText(t, p).text), terms)]

LanguageNameOf(display_name) ==
    supported_languages[CHOOSE k \in DOMAIN supported_languages :
                            supported_languages[k].display_name = display_name].name

\* the hit r reports the file p with the score s
Backed(r, p, s, withPath) ==
    /\ r.file = p[Len(p)]
    /\ r.project = p[2]
    /\ r.language = LanguageNameOf(p[1])
    /\ r.score = s
    /\ withPath => r.path = p

ScoredAs(results, total, scores, most, withPath) ==
    /\ total = Cardinality({p \in DOMAIN scores : scores[p] > 0})
    /\ \A i \in DOMAIN results :
           \E p \in DOMAIN scores : scores[p] > 0 /\ Backed(results[i], p, scores[p], withPath)
    /\ total <= most =>
           \A p \in DOMAIN scores :
               scores[p] > 0 =>
                   \E i \in DOMAIN results : Backed(results[i], p, scores[p], withPath)

SearchTerms == split(lower(exchange.q))

SearchTotal ==
    IF exchange.server = "rest" THEN exchange.result.total
    ELSE exchange.result.total_results

C17_Scoring ==
    exchange.phase = "searched" =>
        /\ ScoredAs(exchange.result.results, SearchTotal,
                    ScoresOf(tree,
                             Scope(tree, exchange.language, exchange.project,
                                   IF exchange.server = "rest" THEN {".md", ".json"}
                                   ELSE {".md"}),
                             SearchTerms),
                    IF exchange.server = "rest" THEN RestMaxResults ELSE MaxResults,
                    exchange.server = "rest")
        /\ SearchTerms = <<>> => SearchTotal = 0 /\ exchange.result.results = <<>>

C17_Witness ==
    /\ exchange.phase = "searched"
    /\ Len(SearchTerms) = 2
    /\ SearchTerms[1] = SearchTerms[2]
    /\ exchange.result.results # <<>>
    /\ exchange.result.results[1].score = 2 * Occurrences(<<"a", "a", "a">>, SearchTerms[1])

(***************************************************************************)
(* C18: a search returns the first min(total, MAX) hits (MAX is 20 in the  *)
(* MCP service, 50 in the REST server) of all hits sorted by score from    *)
(* the highest down, hits of equal score in the order the traversal found  *)
(* them, and the total it reports is the number of hits before the cut,    *)
(* so the total is never less than the length of the list.                 *)
(***************************************************************************)
\* the place of the j-th hit found in the sorted list: behind every hit of
\* a higher score and every earlier hit of the same score
Rank(found, j) ==
    1 + Cardinality({i \in DOMAIN found :
                        \/ found[i].score > found[j].score
                        \/ found[i].score = found[j].score /\ i < j})

RankedAs(results, total, found, most) ==
    /\ total = Len(found)
    /\ total >= Len(results)
    /\ Len(results) = Min(total, most)
    /\ \A j \in DOMAIN found :
           Rank(found, j) <= most => results[Rank(found, j)] = found[j]

\* the hits of the search in the order the traversal finds them
Found ==
    IF exchange.server = "rest"
    THEN RestScanLanguages(tree, supported_languages, exchange.language, exchange.project,
                           SearchTerms)
    ELSE ScanLanguages(tree, supported_languages, exchange.language, exchange.project,
                       SearchTerms)

C18_RankedAndCut ==
    exchange.phase = "searched" =>
        RankedAs(exchange.result.results, SearchTotal, Found,
                 IF exchange.server = "rest" THEN RestMaxResults ELSE MaxResults)

\* more hits than the list holds, among them hits of equal and of
\* different scores
CutWithTies(most) ==
    /\ SearchTotal > most
    /\ Len(exchange.result.results) = most
    /\ \E i \in 1..(most - 1) :
           exchange.result.results[i].score > exchange.result.results[i + 1].score
    /\ \E i \in 1..(most - 1) :
           /\ exchange.result.results[i].score = exchange.result.results[i + 1].score
           /\ exchange.result.results[i] # exchange.result.results[i + 1]

C18_Witness ==
    /\ exchange.phase = "searched"
    /\ exchange.server = "rest"
    /\ CutWithTies(RestMaxResults)

(***************************************************************************)
(* C19: a file a search scan cannot read (no permission, bytes that are    *)
(* not UTF-8) is left out of the results and the scan goes on: every       *)
(* readable matching file in scope still appears, and the search returns   *)
(* a result, in the MCP service, the REST server and the search tool of    *)
(* continue_full_compatible.py.                                            *)
(***************************************************************************)
Readable(t, p) == ReadText(t, p).exc = NoExc

\* some term stands in the lowercased content of the readable file p
Matching(t, p, terms) ==
    /\ Readable(t, p)
    /\ \E k \in DOMAIN terms : MatchAt(lower(ReadText(t, p).text), terms[k]) # {}

Names(r, p) == r.file = p[Len(p)] /\ r.project = p[2]

\* the hits are the readable matching files of the scope, all of them
\* unless the list is cut
OnlyReadable(t, results, total, scope, terms, most, withPath) ==
    /\ \A i \in DOMAIN results :
           \E p \in scope :
               /\ Matching(t, p, terms)
               /\ Names(results[i], p)
               /\ withPath => results[i].path = p
    /\ \A p \in scope :
           (withPath /\ ~Readable(t, p)) => \A i \in DOMAIN results : results[i].path # p
    /\ total = Cardinality({p \in scope : Matching(t, p, terms)})
    /\ total <= most =>
           \A p \in scope :
               Matching(t, p, terms) => \E i \in DOMAIN results : Names(results[i], p)

\* the files the search tool of continue_full_compatible.py looks at
ContinueScope(t, language) ==
    {p \in DOMAIN t :
        /\ Len(p) >= 3
        /\ p[1] # "templates"
        /\ language = "all" \/ language = p[1]
        /\ IsDir(t, <<p[1], p[2]>>)
        /\ MatchesExt(p[Len(p)], ".md")}

ContinueMatching(t, p, query) ==
    /\ Readable(t, p)
    /\ query = <<>> \/ MatchAt(lower(ReadText(t, p).text), query) # {}

ContinueNames(r, p) ==
    /\ r.language = p[1]
    /\ r.project = p[2]
    /\ r.file = RelativeTo(p, <<p[1], p[2]>>)

ContinueOnlyReadable(t, results, scope, query) ==
    /\ \A i \in DOMAIN results :
           \E p \in scope : ContinueMatching(t, p, query) /\ ContinueNames(results[i], p)
    /\ \A p \in scope :
           ContinueMatching(t, p, query) =>
               \E i \in DOMAIN results : ContinueNames(results[i], p)
    /\ Len(results) = Cardinality({p \in scope : ContinueMatching(t, p, query)})

ContinueSearched ==
    /\ exchange.phase = "called"
    /\ exchange.server = "continue"
    /\ exchange.name = "search_documentation"

C19_UnreadableSkipped ==
    /\ exchange.phase = "searched" =>
           OnlyReadable(tree, exchange.result.results, SearchTotal,
                        Scope(tree, exchange.language, exchange.project,
                              IF exchange.server = "rest" THEN {".md", ".json"}
                              ELSE {".md"}),
                        SearchTerms,
                        IF exchange.server = "rest" THEN RestMaxResults ELSE MaxResults,
                        exchange.server = "rest")
    /\ ContinueSearched =>
           /\ exchange.outcome.exc = NoExc
           /\ Len(exchange.outcome.content) = 1
           /\ IsJsonText(exchange.outcome.content[1])
           /\ ContinueOnlyReadable(tree, exchange.outcome.content[1].text.dumps.results,
                                   ContinueScope(tree, Arg(exchange.arguments, "language",
                                                           "all")),
                                   lower(Arg(exchange.arguments, "query", <<>>)))

\* a scan that met a file without permission and a file of broken bytes
\* and returned a hit found behind them
C19_Witness ==
    /\ exchange.phase = "searched"
    /\ exchange.server = "gateway"
    /\ <<"Java", "demo", "locked.md">> \in DOMAIN tree
    /\ ReadText(tree, <<"Java", "demo", "locked.md">>).exc.cls = "PermissionError"
    /\ ReadText(tree, <<"Java", "demo", "broken.md">>).exc.cls = "UnicodeDecodeError"
    /\ \E i \in DOMAIN exchange.result.results :
           exchange.result.results[i].file = "deep.md"

(***************************************************************************)
(* C20: whatever the outcomes of the rules (README present or not, API     *)
(* document present or not, no, one or several markdown files, source      *)
(* files present or not, conventional layout or not), the quality score    *)
(* that check_documentation_quality reports is at least 0 and at most      *)
(* max_score, which is 10.                                                 *)
(***************************************************************************)
QualityCalled ==
    /\ exchange.phase = "called"
    /\ exchange.name = "check_documentation_quality"
    /\ exchange.outcome.exc = NoExc
    /\ IsJsonText(exchange.outcome.content[1])

QualityPayload == exchange.outcome.content[1].text.dumps

\* the score of the report: "score" in continue_full_compatible.py,
\* "quality_score" in mcp_protocol_server.py
ReportedScores(payload) ==
    {payload[k] : k \in DOMAIN payload \cap {"score", "quality_score"}}

C20_ScoreWithinMax ==
    QualityCalled =>
        /\ \A s \in ReportedScores(QualityPayload) : 0 <= s /\ s <= max_score
        /\ "max_score" \in DOMAIN QualityPayload => QualityPayload.max_score = 10

(***************************************************************************)
(* C21: in every quality report for a project that was found, the score    *)
(* is the sum of the points of the checks in the report, and the report    *)
(* holds exactly one check for each rule of the rubric: README 3 or 0,     *)
(* API document 2 or 0, number of markdown files 2, 1 or 0, source files   *)
(* 1 or 0, layout 2 or 1.                                                  *)
(***************************************************************************)
\* the points each rule of the rubric can give
RubricPoints ==
    [readme |-> {3, 0}, api_documentation |-> {2, 0}, documentation_files |-> {2, 1, 0},
     code_files |-> {1, 0}, project_structure |-> {2, 1}]

FoundReport ==
    /\ QualityCalled
    /\ exchange.server = "continue"
    /\ QualityPayload.found

OnePerRule(checks) ==
    /\ Len(checks) = Cardinality(DOMAIN RubricPoints)
    /\ \A rule \in DOMAIN RubricPoints :
           \E i \in DOMAIN checks :
               /\ checks[i].type = rule
               /\ checks[i].score \in RubricPoints[rule]
               /\ \A j \in DOMAIN checks : checks[j].type = rule => j = i

C21_ScoreIsSumOfChecks ==
    FoundReport =>
        /\ OnePerRule(QualityPayload.checks)
        /\ QualityPayload.score
               = Sum([i \in DOMAIN QualityPayload.checks |-> QualityPayload.checks[i].score])

\* a report in which every rule gives its most points
C21_Witness ==
    /\ FoundReport
    /\ QualityPayload.score = 10
    /\ \E i \in DOMAIN QualityPayload.checks :
           QualityPayload.checks[i].type = "documentation_files"
           /\ QualityPayload.checks[i].score = 2

(***************************************************************************)
(* C22: requests share no mutable state other than the file tree: no       *)
(* request handler writes process-wide state that another request, on      *)
(* another connection or in the same batch, can read or overwrite.  The    *)
(* session of the application object is process-wide state, so no step     *)
(* of a handler changes it.                                                *)
(***************************************************************************)
C22_NoSharedWrites == [][session' = session]_vars

(***************************************************************************)
(* C23: create_documentation is the only write path.  No step of any       *)
(* server other than a create_documentation call of                        *)
(* continue_full_compatible.py changes the file tree: not the other tools, *)
(* not a search, not a resource listing, not a resource read.  A           *)
(* create_documentation call changes at most one path of the tree, and     *)
(* what it leaves there is a file.                                         *)
(***************************************************************************)
ChangedPaths(before, after) ==
    {p \in DOMAIN before \cup DOMAIN after :
        p \notin DOMAIN before \/ p \notin DOMAIN after \/ before[p] # after[p]}

OnlyCreateWrote ==
    /\ Cardinality(ChangedPaths(tree, tree')) <= 1
    /\ ChangedPaths(tree, tree') # {} =>
           /\ exchange'.phase = "called"
           /\ exchange'.server = "continue"
           /\ exchange'.name = "create_documentation"
           /\ exchange'.before = tree
           /\ \A p \in ChangedPaths(tree, tree') : p \in DOMAIN tree' /\ tree'[p].kind = "file"

C23_OnlyCreateWrites == [][OnlyCreateWrote]_vars

\* a create_documentation call that changed one file of the tree
C23_Witness ==
    /\ exchange.phase = "called"
    /\ exchange.name = "create_documentation"
    /\ Cardinality(ChangedPaths(exchange.before, tree)) = 1

(***************************************************************************)
(* C24: no staleness.  What a listing and a read return is the tree as it  *)
(* is when they run, also after create_documentation has written a file:   *)
(* the listing of mcp_protocol_server.py holds a README resource for       *)
(* exactly the project directories that hold a README.md now, a README     *)
(* read that succeeds returns the text the file holds now, and the project *)
(* resource of continue_full_compatible.py names exactly the files that    *)
(* are below the project directory now.                                    *)
(***************************************************************************)
ProjectDirsNow == {q \in DOMAIN tree : Len(q) = 2 /\ q[1] = "Java" /\ tree[q].kind = "dir"}

ListedUris == {exchange.resources[i].uri : i \in DOMAIN exchange.resources}

FilesBelowNow(dir) ==
    {q \in DOMAIN tree : Len(q) > Len(dir) /\ SubSeq(q, 1, Len(dir)) = dir
                         /\ tree[q].kind = "file"}

C24_NoStaleness ==
    /\ (exchange.phase = "listed" /\ exchange.server = "protocol") =>
           \A q \in ProjectDirsNow :
               /\ ProjectResource("java", q[2]).uri \in ListedUris
               /\ ReadmeResource("java", q[2]).uri \in ListedUris
                      <=> Append(q, "README.md") \in DOMAIN tree
    /\ (exchange.phase = "listed" /\ exchange.server = "protocol") =>
           Cardinality({u \in ListedUris : u.chars[2] = "project"})
               = Cardinality(ProjectDirsNow)
    /\ (exchange.phase = "read" /\ exchange.server = "protocol"
        /\ exchange.result.exc = NoExc) =>
           \A q \in ProjectDirsNow :
               exchange.uri = ReadmeResource("java", q[2]).uri =>
                   /\ Append(q, "README.md") \in DOMAIN tree
                   /\ exchange.result.text = [raw |-> tree[Append(q, "README.md")].text]
    /\ (exchange.phase = "read" /\ exchange.server = "continue") =>
           \A q \in ProjectDirsNow :
               exchange.uri = ContinueProjectResource("Java", q[2]).uri =>
                   /\ "dumps" \in DOMAIN exchange.result.text
                   /\ {q \o exchange.result.text.dumps.files[i].path :
                           i \in DOMAIN exchange.result.text.dumps.files}
                          = FilesBelowNow(q)

\* the README that create_documentation wrote is listed and read
C24_Witness ==
    /\ exchange.phase = "read"
    /\ exchange.server = "protocol"
    /\ exchange.uri = ReadmeResource("java", "tools").uri
    /\ exchange.result.exc = NoExc
    /\ <<"Java", "tools", "README.md">> \notin DOMAIN DocsTree
    /\ exchange.result.text = [raw |-> tree[<<"Java", "tools", "README.md">>].text]

(***************************************************************************)
(* C25: the API-doc rule of check_documentation_quality gives its 2 points *)
(* with status present exactly when the project directory holds a markdown *)
(* file whose name contains "api" in any letter case, and 0 points with    *)
(* status missing otherwise.                                               *)
(***************************************************************************)
ApiLetterings == {"api", "API", "Api"}

NamesApi(name) ==
    /\ Spell(name)[Len(Spell(name))] = ".md"
    /\ \E k \in 1..(Len(Spell(name)) - 1) : Spell(name)[k] \in ApiLetterings

ApiRuleOf(checks) == checks[CHOOSE i \in DOMAIN checks : checks[i].type = "api_documentation"]

C25_ApiRuleAnyCase ==
    FoundReport =>
        LET project_dir == FindProject(exchange.before, exchange.arguments).path
            rule == ApiRuleOf(QualityPayload.checks)
        IN IF \E n \in ChildNames(exchange.before, project_dir) : NamesApi(n)
           THEN rule.score = 2 /\ rule.status = "present"
           ELSE rule.score = 0 /\ rule.status = "missing"

(***************************************************************************)
(* C26: an initialize request that is answered with an error envelope      *)
(* leaves the session exactly as it was.  After a POST of one request that *)
(* is an initialize request and whose response holds an error, the session *)
(* is the session from before the POST.                                    *)
(***************************************************************************)
FailedInitialize ==
    /\ HasReply
    /\ exchange.body.k = "single"
    /\ IsInitialize(Items[1])
    /\ 1 \in DOMAIN Responses
    /\ "error" \in DOMAIN Responses[1]

C26_FailedInitializeLeavesSession == FailedInitialize => session = exchange.before

(***************************************************************************)
(* C27: every URI returned by a resource listing is readable.  On the tree *)
(* the listing ran on, the read of a listed URI by the server that listed  *)
(* it raises nothing and returns the content of the resource, never a      *)
(* not-found text.                                                         *)
(***************************************************************************)
ReadOfListed ==
    /\ exchange.phase = "read"
    /\ \E i \in DOMAIN exchange.listed : exchange.listed[i].uri = exchange.uri

IsNotFoundText(text) ==
    /\ "plain" \in DOMAIN text
    /\ \/ text = ResourceNotFound(exchange.uri).text
       \/ Slice(text.plain, Len(TemplateNotFound)) = TemplateNotFound

C27_ListedIsReadable ==
    ReadOfListed =>
        /\ exchange.result.exc = NoExc
        /\ ~IsNotFoundText(exchange.result.text)

(***************************************************************************)
(* C28: for each template name of the declared enumeration (project-readme,*)
(* api-doc, module-doc), create_documentation called on an existing        *)
(* language and project directory, where the document can be written,      *)
(* reports created: true and leaves the corresponding file (README.md,     *)
(* API.md, MODULE.md) in the project directory.                            *)
(***************************************************************************)
DeclaredTemplates ==
    ("project-readme" :> "README.md") @@ ("api-doc" :> "API.md")
    @@ ("module-doc" :> "MODULE.md")

\* the template argument as a string, "" when the call has none
TemplateArg == IF "template" \in DOMAIN exchange.arguments /\ exchange.arguments.template # NotText
               THEN Concat(exchange.arguments.template) ELSE ""

ProjectDirArg ==
    <<Arg(exchange.arguments, "language", ""), Arg(exchange.arguments, "project_name", "")>>

\* the call names a language directory and a project directory of the tree
OnExistingProject ==
    /\ CreateCalled
    /\ {"language", "project_name"} \subseteq DOMAIN exchange.arguments
    /\ ProjectDirArg \in DOMAIN exchange.before
    /\ exchange.before[ProjectDirArg].kind = "dir"

Writable(path) == WriteText(exchange.before, path, <<>>).exc = NoExc

C28_DeclaredTemplatesCreate ==
    (/\ OnExistingProject
     /\ TemplateArg \in DOMAIN DeclaredTemplates
     /\ Writable(Append(ProjectDirArg, DeclaredTemplates[TemplateArg]))) =>
        /\ exchange.outcome.exc = NoExc
        /\ CreatePayload.created
        /\ Append(ProjectDirArg, DeclaredTemplates[TemplateArg]) \in DOMAIN tree
        /\ tree[Append(ProjectDirArg, DeclaredTemplates[TemplateArg])].kind = "file"
        /\ ChangedPaths(exchange.before, tree)
               \subseteq {Append(ProjectDirArg, DeclaredTemplates[TemplateArg])}

(***************************************************************************)
(* C29: create_documentation writes a file only when its template argument *)
(* is one of the declared enumeration values (project-readme, api-doc,     *)
(* module-doc).  For any other template name it reports created: false and *)
(* leaves the tree as it was.                                              *)
(***************************************************************************)
C29_UndeclaredTemplateWritesNothing ==
    (CreateCalled /\ exchange.outcome.exc = NoExc
     /\ TemplateArg \notin DOMAIN DeclaredTemplates) =>
        /\ ~CreatePayload.created
        /\ tree = exchange.before

(***************************************************************************)
(* C30: monitor quiescence.  When no file was changed from outside between *)
(* two consecutive monitoring cycles of MCPAutoUpdater, the scan of the    *)
(* later cycle reports nothing added and nothing modified: what            *)
(* update_timestamps wrote in the earlier cycle is not taken for a change. *)
(***************************************************************************)
QuietCycle == exchange.phase = "cycled" /\ exchange.quiet

C30_MonitorQuiescence ==
    QuietCycle => exchange.changes.added = {} /\ exchange.changes.modified = {}

====
